---- MODULE Spec2Model ----
(***************************************************************************)
(* A model of rust-rdftk: the Literal / DataType value types of rdftk_core *)
(* (literal.rs) and the Resource statement builder with its flattening     *)
(* into statements (resource.rs), the N-Triples parser and the Turtle      *)
(* writer of rdftk_io, and the SKOS model of rdftk_skos.                   *)
(*                                                                         *)
(* Text is modelled as a sequence of tokens.  A token is a one-character   *)
(* string, or the whole text of an IRI (an IRI is an opaque value of the   *)
(* rdftk_iri crate; its text is never taken apart here, except by the      *)
(* Turtle writer, for which the text of an IRI is the sequence of a        *)
(* namespace and the parts after it).                                      *)
(* Option<T> is modelled as a sequence of length at most one:              *)
(* None is <<>> and Some(x) is <<x>>.                                      *)
(***************************************************************************)
EXTENDS Integers, Sequences, FiniteSets, TLC

VARIABLES
    lit,        \* Option<Literal>: the Literal value most recently constructed
    call,       \* the constructor or conversion that produced lit, and its arguments
    shown,      \* Option<String>: the result of to_string() on lit
    iri,        \* Option<IRIRef>: the result of data_type.as_iri() on lit
    res,        \* Option<Resource>: the resource under construction
    twin,       \* Option<Resource>: a second resource built by the same calls
    last,       \* the most recent builder call on res: predicate and object
    calls,      \* number of builder calls made on res
    nextBlank,  \* the blank node generator's next sequence number
    sts,        \* Option<Vec<Statement>>: the result of flattening res
    sts2,       \* Option<Vec<Statement>>: the result of flattening twin
    input,      \* Option<document>: the text parse_graph was called with
    pairs,      \* the triple pairs of the parse tree, in file order
    consumed,   \* number of triple pairs ntriples_doc has taken from pairs
    graph,      \* Option<graph>: the graph ntriples_doc is filling
    result,     \* what parse_graph returned, or how it ended
    pred,       \* Option<Predicate>: the Predicate builder under construction
    direct,     \* the resource built by the Resource methods, call by call
    viaPredicate, \* Option<Resource>: the resource after predicate(pred)
    writer,     \* Option<TurtleWriter>: the writer constructed
    sink,       \* the sink w: the writes it took, the attempts made, when it fails
    written,    \* Option<graph>: the graph write was called with
    wresult,    \* Option: what write returned, or how it ended
    reread,     \* Option: what a Turtle reader makes of the text in the sink
    scheme,     \* the SKOS Scheme: concepts and top_concepts
    statements, \* Option<Vec<Statement>>: the result of scheme.to_statements()
    labeled,    \* the properties of a Labeled object
    asked,      \* Option: a call of preferred_label and how it ended
    skosCalls   \* number of calls made on scheme and on labeled

literalVars == <<lit, call, shown, iri>>
resourceVars == <<res, twin, last, calls, nextBlank, sts, sts2>>
parserVars == <<input, pairs, consumed, graph, result>>
predicateVars == <<pred, direct, viaPredicate>>
writerVars == <<writer, sink, written, wresult, reread>>
skosVars == <<scheme, statements, labeled, asked, skosCalls>>
vars == <<lit, call, shown, iri, res, twin, last, calls, nextBlank, sts, sts2,
          input, pairs, consumed, graph, result, pred, direct, viaPredicate,
          writer, sink, written, wresult, reread,
          scheme, statements, labeled, asked, skosCalls>>

None == <<>>
Some(x) == <<x>>
is_some(o) == Len(o) = 1
is_none(o) == Len(o) = 0

(***************************************************************************)
(* Bounds of the model.                                                    *)
(***************************************************************************)
MaxStrLen == 2
MaxCalls == 2
MaxMembers == 3
MaxLines == 2

(***************************************************************************)
(* Text.                                                                   *)
(***************************************************************************)
Quote == "\""
Backslash == "\\"
Tab == "\t"
FormFeed == "\f"

\* The characters strings are drawn from: a lower-case and an upper-case
\* letter, the two characters the escaping is about, a control character
\* <char as Debug> has a short escape for and one it has none for.
Chars == {"a", "E", Quote, Backslash, Tab, FormFeed}

Strings == UNION {[1..n -> Chars] : n \in 0..MaxStrLen}

\* char::to_lowercase on the characters used here.
CharToLowercase(c) ==
    CASE c = "E" -> "e"
      [] c = "N" -> "n"
      [] c = "U" -> "u"
      [] c = "S" -> "s"
      [] OTHER -> c

\* str::to_lowercase
to_lowercase(s) == [i \in 1..Len(s) |-> CharToLowercase(s[i])]

\* <char as Debug> escaping as applied by <str as Debug>: the double quote and
\* the backslash get a backslash, control characters become their escape.
EscapeDebugChar(c) ==
    CASE c = Quote -> <<Backslash, Quote>>
      [] c = Backslash -> <<Backslash, Backslash>>
      [] c = Tab -> <<Backslash, "t">>
      [] c = FormFeed -> <<Backslash, "u", "{", "c", "}">>
      [] OTHER -> <<c>>

RECURSIVE EscapeDebug(_)
EscapeDebug(s) ==
    IF s = <<>> THEN <<>>
    ELSE EscapeDebugChar(Head(s)) \o EscapeDebug(Tail(s))

\* format!("{:?}", value)
FormatDebug(value) == <<Quote>> \o EscapeDebug(value) \o <<Quote>>

\* A plausible slip in escape_string: only the quotes get a backslash.
escape_string_QuotesOnly(value) ==
    IF value = <<>> THEN <<>>
    ELSE LET escaped == [i \in 1..Len(value) |->
                            IF value[i] = Quote THEN <<Backslash, Quote>>
                            ELSE IF value[i] = Backslash THEN <<Backslash>>
                            ELSE EscapeDebugChar(value[i])]
             Concat[i \in 0..Len(value)] ==
                 IF i = 0 THEN <<>> ELSE Concat[i - 1] \o escaped[i]
         IN  Concat[Len(value)]

\* Literal::escape_string
escape_string(value) ==
    LET formatted == FormatDebug(value)
    IN  SubSeq(formatted, 2, Len(formatted) - 1)

Digit(d) == CASE d = 0 -> "0" [] d = 1 -> "1" [] d = 2 -> "2" [] d = 3 -> "3"
              [] d = 4 -> "4" [] d = 5 -> "5" [] d = 6 -> "6" [] d = 7 -> "7"
              [] d = 8 -> "8" [] d = 9 -> "9"

RECURSIVE NatToString(_)
NatToString(n) ==
    IF n < 10 THEN <<Digit(n)>>
    ELSE NatToString(n \div 10) \o <<Digit(n % 10)>>

\* to_string() of the integer types
IntToString(n) == IF n < 0 THEN <<"-">> \o NatToString(0 - n) ELSE NatToString(n)

\* to_string() of bool
BoolToString(b) == IF b THEN <<"t", "r", "u", "e">> ELSE <<"f", "a", "l", "s", "e">>

\* A float is modelled by the number of halves it holds (3 is 1.5);
\* to_string() prints a whole float without a fraction.
FloatToString(h) ==
    LET a == IF h < 0 THEN 0 - h ELSE h
        sign == IF h < 0 THEN <<"-">> ELSE <<>>
    IN  sign \o NatToString(a \div 2) \o (IF a % 2 = 1 THEN <<".", "5">> ELSE <<>>)

RECURSIVE ZeroPad(_, _)
ZeroPad(s, width) == IF Len(s) >= width THEN s ELSE ZeroPad(<<"0">> \o s, width)

\* format!("T{}.{:09}S", value.as_secs(), value.subsec_nanos())
DurationWidth == 9
FormatDuration(d) ==
    <<"T">> \o NatToString(d.secs) \o <<".">>
        \o ZeroPad(NatToString(d.nanos), DurationWidth) \o <<"S">>

\* QName::to_string
QNameToString(q) == q.prefix \o <<":">> \o q.name

\* IRIRef::to_string: the text of an IRI is one token
IriToString(i) == <<i>>

(***************************************************************************)
(* rdftk_names::xsd: the IRIs of the XML Schema data types.                *)
(***************************************************************************)
xsd_string == "http://www.w3.org/2001/XMLSchema#string"
xsd_q_name == "http://www.w3.org/2001/XMLSchema#QName"
xsd_any_uri == "http://www.w3.org/2001/XMLSchema#anyURI"
xsd_boolean == "http://www.w3.org/2001/XMLSchema#boolean"
xsd_float == "http://www.w3.org/2001/XMLSchema#float"
xsd_double == "http://www.w3.org/2001/XMLSchema#double"
xsd_long == "http://www.w3.org/2001/XMLSchema#long"
xsd_int == "http://www.w3.org/2001/XMLSchema#int"
xsd_short == "http://www.w3.org/2001/XMLSchema#short"
xsd_byte == "http://www.w3.org/2001/XMLSchema#byte"
xsd_unsigned_long == "http://www.w3.org/2001/XMLSchema#unsignedLong"
xsd_unsigned_int == "http://www.w3.org/2001/XMLSchema#unsignedInt"
xsd_unsigned_short == "http://www.w3.org/2001/XMLSchema#unsignedShort"
xsd_unsigned_byte == "http://www.w3.org/2001/XMLSchema#unsignedByte"
xsd_duration == "http://www.w3.org/2001/XMLSchema#duration"

(***************************************************************************)
(* enum DataType.  A variant without data carries the empty iri field.     *)
(***************************************************************************)
DT(v) == [variant |-> v, iri |-> ""]
DataType_Other(i) == [variant |-> "Other", iri |-> i]

BuiltinVariants ==
    {"String", "QName", "IRI", "Boolean", "Float", "Double", "Long", "Int", "Short",
     "Byte", "UnsignedLong", "UnsignedInt", "UnsignedShort", "UnsignedByte", "Duration"}

\* The IRIs callers pass in: data types of their own, IRI values.
OtherIris == {"http://example.org/dt#custom", xsd_string}

DataTypes == {DT(v) : v \in BuiltinVariants} \cup {DataType_Other(i) : i \in OtherIris}

\* DataType::as_iri
as_iri(dt) ==
    CASE dt.variant = "String" -> xsd_string
      [] dt.variant = "QName" -> xsd_q_name
      [] dt.variant = "IRI" -> xsd_any_uri
      [] dt.variant = "Boolean" -> xsd_boolean
      [] dt.variant = "Float" -> xsd_float
      [] dt.variant = "Double" -> xsd_double
      [] dt.variant = "Long" -> xsd_long
      [] dt.variant = "Int" -> xsd_int
      [] dt.variant = "Short" -> xsd_short
      [] dt.variant = "Byte" -> xsd_byte
      [] dt.variant = "UnsignedLong" -> xsd_unsigned_long
      [] dt.variant = "UnsignedInt" -> xsd_unsigned_int
      [] dt.variant = "UnsignedShort" -> xsd_unsigned_short
      [] dt.variant = "UnsignedByte" -> xsd_unsigned_byte
      [] dt.variant = "Duration" -> xsd_duration
      [] dt.variant = "Other" -> dt.iri

\* The inner match of <Literal as Display>::fmt, a second copy of the table.
DisplayDataTypeIri(data_type) ==
    CASE data_type.variant = "String" -> xsd_string
      [] data_type.variant = "QName" -> xsd_q_name
      [] data_type.variant = "IRI" -> xsd_any_uri
      [] data_type.variant = "Boolean" -> xsd_boolean
      [] data_type.variant = "Float" -> xsd_float
      [] data_type.variant = "Double" -> xsd_double
      [] data_type.variant = "Long" -> xsd_long
      [] data_type.variant = "Int" -> xsd_int
      [] data_type.variant = "Short" -> xsd_short
      [] data_type.variant = "Byte" -> xsd_byte
      [] data_type.variant = "UnsignedLong" -> xsd_unsigned_long
      [] data_type.variant = "UnsignedInt" -> xsd_unsigned_int
      [] data_type.variant = "UnsignedShort" -> xsd_unsigned_short
      [] data_type.variant = "UnsignedByte" -> xsd_unsigned_byte
      [] data_type.variant = "Duration" -> xsd_duration
      [] data_type.variant = "Other" -> data_type.iri

(***************************************************************************)
(* struct Literal and its constructors.                                    *)
(***************************************************************************)
Literal(lexical_form, data_type, language) ==
    [lexical_form |-> lexical_form, data_type |-> data_type, language |-> language]

\* Literal::new
Literal_new(value) == Literal(escape_string(value), None, None)

\* Literal::with_type
Literal_with_type(value, data_type) ==
    Literal(escape_string(value), Some(data_type), None)

\* A plausible slip in with_language: the literal is also typed as a string.
Literal_with_language_Typed(value, language) ==
    Literal(escape_string(value), Some(DT("String")), Some(language))

\* Literal::with_language
Literal_with_language(value, language) ==
    Literal(escape_string(value), None, Some(language))

\* impl From<String> for Literal, impl From<&str> for Literal
Literal_from_String(value) == Literal(escape_string(value), Some(DT("String")), None)
Literal_from_str(value) == Literal(escape_string(value), Some(DT("String")), None)
\* impl From<IRIRef>, From<QName>
Literal_from_IRIRef(value) == Literal(IriToString(value), Some(DT("IRI")), None)
Literal_from_QName(value) == Literal(QNameToString(value), Some(DT("QName")), None)
\* impl From<bool>, From<f32>, From<f64>
Literal_from_bool(value) == Literal(BoolToString(value), Some(DT("Boolean")), None)
Literal_from_f32(value) == Literal(FloatToString(value), Some(DT("Float")), None)
Literal_from_f64(value) == Literal(FloatToString(value), Some(DT("Double")), None)
\* impl From<i64>, From<i32>, From<i16>, From<i8>
Literal_from_i64(value) == Literal(IntToString(value), Some(DT("Long")), None)
\* A plausible slip in From<i32>: copied from From<i64> with the type left as Long.
Literal_from_i32_AsLong(value) == Literal(IntToString(value), Some(DT("Long")), None)
Literal_from_i32(value) == Literal(IntToString(value), Some(DT("Int")), None)
Literal_from_i16(value) == Literal(IntToString(value), Some(DT("Short")), None)
Literal_from_i8(value) == Literal(IntToString(value), Some(DT("Byte")), None)
\* impl From<u64>, From<u32>, From<u16>, From<u8>
Literal_from_u64(value) == Literal(IntToString(value), Some(DT("UnsignedLong")), None)
Literal_from_u32(value) == Literal(IntToString(value), Some(DT("UnsignedInt")), None)
Literal_from_u16(value) == Literal(IntToString(value), Some(DT("UnsignedShort")), None)
Literal_from_u8(value) == Literal(IntToString(value), Some(DT("UnsignedByte")), None)
\* impl From<Duration>
Literal_from_Duration(value) == Literal(FormatDuration(value), Some(DT("Duration")), None)

\* The suffix <Literal as Display>::fmt writes after the closing quote.
DisplaySuffix(data_type, language) ==
    CASE is_some(data_type) /\ is_none(language) ->
             <<"^", "^", "<", DisplayDataTypeIri(data_type[1]), ">">>
      [] is_none(data_type) /\ is_some(language) ->
             <<"@">> \o to_lowercase(language[1])
      [] OTHER -> <<>>

\* A plausible slip in fmt: the language tag is written as stored.
Literal_fmt_NoLowercase(self) ==
    <<Quote>> \o self.lexical_form \o <<Quote>>
        \o (IF is_some(self.language) THEN <<"@">> \o self.language[1]
            ELSE DisplaySuffix(self.data_type, self.language))

\* <Literal as Display>::fmt, that is to_string()
Literal_fmt(self) ==
    <<Quote>> \o self.lexical_form \o <<Quote>>
        \o DisplaySuffix(self.data_type, self.language)

(***************************************************************************)
(* The values the conversions are applied to.                              *)
(***************************************************************************)
Languages == {<<"e", "n">>, <<"E", "N">>, <<"e", "n", "_", "U", "S">>}
Bools == {TRUE, FALSE}
SignedSamples == {-7, 0, 1, 120}
UnsignedSamples == {0, 1, 42}
FloatSamples == {-3, 0, 2, 3}
DurationSamples ==
    {[secs |-> 0, nanos |-> 0], [secs |-> 2, nanos |-> 5],
     [secs |-> 12, nanos |-> 999999999]}
QNameSamples == {[prefix |-> <<"x">>, name |-> <<"a">>], [prefix |-> <<"E">>, name |-> <<"a", "a">>]}

NoCall == [op |-> "none", value |-> None, data_type |-> None, language |-> None]

LiteralInit ==
    /\ lit = None
    /\ call = NoCall
    /\ shown = None
    /\ iri = None

\* A constructor or conversion returns the literal l, a value of its own.
Constructed(op, l, value, data_type, language) ==
    /\ is_none(lit)
    /\ lit' = Some(l)
    /\ call' = [op |-> op, value |-> value, data_type |-> data_type,
                language |-> language]
    /\ shown' = None
    /\ iri' = None

LiteralNew ==
    /\ \E value \in Strings :
            Constructed("new", Literal_new(value), Some(value), None, None)
    /\ UNCHANGED <<resourceVars, parserVars, predicateVars, writerVars, skosVars>>

LiteralWithType ==
    /\ \E value \in Strings, data_type \in DataTypes :
            Constructed("with_type", Literal_with_type(value, data_type),
                        Some(value), Some(data_type), None)
    /\ UNCHANGED <<resourceVars, parserVars, predicateVars, writerVars, skosVars>>

LiteralWithLanguage ==
    /\ \E value \in Strings, language \in Languages :
            Constructed("with_language", Literal_with_language(value, language),
                        Some(value), None, Some(language))
    /\ UNCHANGED <<resourceVars, parserVars, predicateVars, writerVars, skosVars>>

FromString ==
    /\ \E value \in Strings :
            Constructed("String", Literal_from_String(value), Some(value), None, None)
    /\ UNCHANGED <<resourceVars, parserVars, predicateVars, writerVars, skosVars>>

FromStr ==
    /\ \E value \in Strings :
            Constructed("&str", Literal_from_str(value), Some(value), None, None)
    /\ UNCHANGED <<resourceVars, parserVars, predicateVars, writerVars, skosVars>>

FromIRIRef ==
    /\ \E value \in OtherIris :
            Constructed("IRIRef", Literal_from_IRIRef(value), None, None, None)
    /\ UNCHANGED <<resourceVars, parserVars, predicateVars, writerVars, skosVars>>

FromQName ==
    /\ \E value \in QNameSamples :
            Constructed("QName", Literal_from_QName(value), None, None, None)
    /\ UNCHANGED <<resourceVars, parserVars, predicateVars, writerVars, skosVars>>

FromBool ==
    /\ \E value \in Bools :
            Constructed("bool", Literal_from_bool(value), None, None, None)
    /\ UNCHANGED <<resourceVars, parserVars, predicateVars, writerVars, skosVars>>

FromF32 ==
    /\ \E value \in FloatSamples :
            Constructed("f32", Literal_from_f32(value), None, None, None)
    /\ UNCHANGED <<resourceVars, parserVars, predicateVars, writerVars, skosVars>>

FromF64 ==
    /\ \E value \in FloatSamples :
            Constructed("f64", Literal_from_f64(value), None, None, None)
    /\ UNCHANGED <<resourceVars, parserVars, predicateVars, writerVars, skosVars>>

FromI64 ==
    /\ \E value \in SignedSamples :
            Constructed("i64", Literal_from_i64(value), None, None, None)
    /\ UNCHANGED <<resourceVars, parserVars, predicateVars, writerVars, skosVars>>

FromI32 ==
    /\ \E value \in SignedSamples :
            Constructed("i32", Literal_from_i32(value), None, None, None)
    /\ UNCHANGED <<resourceVars, parserVars, predicateVars, writerVars, skosVars>>

FromI16 ==
    /\ \E value \in SignedSamples :
            Constructed("i16", Literal_from_i16(value), None, None, None)
    /\ UNCHANGED <<resourceVars, parserVars, predicateVars, writerVars, skosVars>>

FromI8 ==
    /\ \E value \in SignedSamples :
            Constructed("i8", Literal_from_i8(value), None, None, None)
    /\ UNCHANGED <<resourceVars, parserVars, predicateVars, writerVars, skosVars>>

FromU64 ==
    /\ \E value \in UnsignedSamples :
            Constructed("u64", Literal_from_u64(value), None, None, None)
    /\ UNCHANGED <<resourceVars, parserVars, predicateVars, writerVars, skosVars>>

FromU32 ==
    /\ \E value \in UnsignedSamples :
            Constructed("u32", Literal_from_u32(value), None, None, None)
    /\ UNCHANGED <<resourceVars, parserVars, predicateVars, writerVars, skosVars>>

FromU16 ==
    /\ \E value \in UnsignedSamples :
            Constructed("u16", Literal_from_u16(value), None, None, None)
    /\ UNCHANGED <<resourceVars, parserVars, predicateVars, writerVars, skosVars>>

FromU8 ==
    /\ \E value \in UnsignedSamples :
            Constructed("u8", Literal_from_u8(value), None, None, None)
    /\ UNCHANGED <<resourceVars, parserVars, predicateVars, writerVars, skosVars>>

FromDuration ==
    /\ \E value \in DurationSamples :
            Constructed("Duration", Literal_from_Duration(value), None, None, None)
    /\ UNCHANGED <<resourceVars, parserVars, predicateVars, writerVars, skosVars>>

\* value.to_string() on the literal held
LiteralToString ==
    /\ is_some(lit)
    /\ is_none(shown)
    /\ shown' = Some(Literal_fmt(lit[1]))
    /\ UNCHANGED <<lit, call, iri>>
    /\ UNCHANGED <<resourceVars, parserVars, predicateVars, writerVars, skosVars>>

\* value.data_type() and as_iri() on the data type found
LiteralDataTypeAsIri ==
    /\ is_some(lit)
    /\ is_some(lit[1].data_type)
    /\ is_none(iri)
    /\ iri' = Some(as_iri(lit[1].data_type[1]))
    /\ UNCHANGED <<lit, call, shown>>
    /\ UNCHANGED <<resourceVars, parserVars, predicateVars, writerVars, skosVars>>

LiteralNext ==
    \/ LiteralNew
    \/ LiteralWithType
    \/ LiteralWithLanguage
    \/ FromString
    \/ FromStr
    \/ FromIRIRef
    \/ FromQName
    \/ FromBool
    \/ FromF32
    \/ FromF64
    \/ FromI64
    \/ FromI32
    \/ FromI16
    \/ FromI8
    \/ FromU64
    \/ FromU32
    \/ FromU16
    \/ FromU8
    \/ FromDuration
    \/ LiteralToString
    \/ LiteralDataTypeAsIri

(***************************************************************************)
(* Nodes and statements (rdftk_core::statement).                           *)
(* A node carries its kind t, the text s of an IRI or of a blank node name *)
(* given by the caller, the sequence number n of a generated blank node,   *)
(* and the literal l of a literal object.                                  *)
(***************************************************************************)
Node(t, s, n, l) == [t |-> t, s |-> s, n |-> n, l |-> l]

\* SubjectNode::named
SubjectNode_named(name) == Node("iri", name, 0, None)

\* SubjectNode::blank_named
SubjectNode_blank_named(name) == Node("blank", name, 0, None)

\* SubjectNode::blank, given the generator's next sequence number: a node no
\* other call returns, and no name a caller gives denotes.
SubjectNode_blank(seq) == Node("blank", "", seq, None)

\* impl From<Literal> for ObjectNode
ObjectNode_literal(literal) == Node("literal", "", 0, Some(literal))

is_blank(node) == node.t = "blank"
is_generated(node) == node.t = "blank" /\ node.n > 0

\* Statement::new
Statement_new(subject, predicate, object) ==
    [subject |-> subject, predicate |-> predicate, object |-> object]

(***************************************************************************)
(* rdftk_names::rdf                                                        *)
(***************************************************************************)
RdfNamespace == "http://www.w3.org/1999/02/22-rdf-syntax-ns#"
rdf_a_type == RdfNamespace \o "type"
rdf_alt == RdfNamespace \o "Alt"
rdf_bag == RdfNamespace \o "Bag"
rdf_seq == RdfNamespace \o "Seq"

\* rdf::member(index): the membership property rdf:_index
rdf_member(index) == RdfNamespace \o "_" \o ToString(index)

(***************************************************************************)
(* Resource, ResourceObject, Container, ContainerKind (resource.rs).       *)
(* The HashMap of predicates is the sequence of its entries in the order   *)
(* its iterator visits them; an entry is a key and the Vec of its objects. *)
(***************************************************************************)
ContainerKind(variant, kind_iri) == [variant |-> variant, iri |-> kind_iri]
Container(kind, values) == [kind |-> kind, values |-> values]

ResourceObject_Resource(r) ==
    [variant |-> "Resource", resource |-> Some(r), literal |-> None,
     resources |-> None, literals |-> None]
ResourceObject_Resources(c) ==
    [variant |-> "Resources", resource |-> None, literal |-> None,
     resources |-> Some(c), literals |-> None]
ResourceObject_Literal(l) ==
    [variant |-> "Literal", resource |-> None, literal |-> Some(l),
     resources |-> None, literals |-> None]
ResourceObject_Literals(c) ==
    [variant |-> "Literals", resource |-> None, literal |-> None,
     resources |-> None, literals |-> Some(c)]

\* ResourceObject::is_container
is_container(object) == object.variant \in {"Resources", "Literals"}

\* Resource::new
Resource_new(subject) == [subject |-> subject, predicates |-> <<>>]
\* Resource::named
Resource_named(name) == Resource_new(SubjectNode_named(name))
\* Resource::blank_named
Resource_blank_named(name) == Resource_new(SubjectNode_blank_named(name))
\* Resource::blank, given the generator's next sequence number
Resource_blank(seq) == Resource_new(SubjectNode_blank(seq))

\* HashMap::contains_key
contains_key(predicates, key) == \E i \in 1..Len(predicates) : predicates[i].key = key

\* The position of the entry of a key the map holds.
IndexOf(predicates, key) == CHOOSE i \in 1..Len(predicates) : predicates[i].key = key

\* HashMap::insert(key, RefCell::default()) of a key the map does not hold: the
\* new entry lands where the key's hash puts it, after `slot` of the entries.
insert_entry(predicates, key, slot) ==
    SubSeq(predicates, 1, slot) \o <<[key |-> key, values |-> <<>>]>>
        \o SubSeq(predicates, slot + 1, Len(predicates))

\* values.borrow_mut().push(object) on the entry of the key
push_value(predicates, key, object) ==
    [predicates EXCEPT ![IndexOf(predicates, key)].values = Append(@, object)]

\* A plausible slip in insert: the entry of a new key is created and the object
\* is pushed only when the entry was there before.
Resource_insert_DropsFirst(self, predicate, object, slot) ==
    IF ~contains_key(self.predicates, predicate)
    THEN [self EXCEPT !.predicates = insert_entry(self.predicates, predicate, slot)]
    ELSE [self EXCEPT !.predicates = push_value(self.predicates, predicate, object)]

\* A plausible slip in insert: the value replaces the values of the predicate.
Resource_insert_Replaces(self, predicate, object, slot) ==
    LET withEntry == IF ~contains_key(self.predicates, predicate)
                     THEN insert_entry(self.predicates, predicate, slot)
                     ELSE self.predicates
    IN  [self EXCEPT !.predicates =
            [withEntry EXCEPT ![IndexOf(withEntry, predicate)].values = <<object>>]]

\* Resource::insert
Resource_insert(self, predicate, object, slot) ==
    LET withEntry == IF ~contains_key(self.predicates, predicate)
                     THEN insert_entry(self.predicates, predicate, slot)
                     ELSE self.predicates
    IN  [self EXCEPT !.predicates = push_value(withEntry, predicate, object)]

(***************************************************************************)
(* flatten (resource.rs).  A call of flatten pushes its statements onto    *)
(* the end of the caller's vector, so the model has it return the segment  *)
(* it pushes, as sts; the caller's vector is the concatenation of the      *)
(* segments in call order.  seq is the blank node generator's next         *)
(* sequence number when the call starts, next the one when it returns.     *)
(* The index of a member is the one enumerate() yields.                    *)
(***************************************************************************)
RECURSIVE flatten(_, _)
RECURSIVE FlattenEntries(_, _, _)
RECURSIVE FlattenObjects(_, _, _, _)
RECURSIVE FlattenObject(_, _, _, _)
RECURSIVE FlattenContainer(_, _, _, _)
RECURSIVE FlattenPlain(_, _, _, _)
RECURSIVE FlattenResourceMembers(_, _, _, _)

Pushed(segment, seq) == [sts |-> segment, next |-> seq]

\* The class of a container: the match on kind in flatten.
ContainerClass(kind) ==
    CASE kind.variant = "Alt" -> rdf_alt
      [] kind.variant = "Bag" -> rdf_bag
      [] kind.variant = "Seq" -> rdf_seq
      [] kind.variant = "Other" -> kind.iri

\* for (index, literal) in lc.values.iter().enumerate(): value i of the
\* model's sequence is the one enumerate() pairs with index i - 1.
FlattenLiteralMembers(container, values) ==
    [i \in 1..Len(values) |->
        Statement_new(container, rdf_member(i - 1), ObjectNode_literal(values[i]))]

\* for (index, resource) in rc.values.iter().enumerate(), from index on
FlattenResourceMembers(container, values, index, seq) ==
    IF index >= Len(values) THEN Pushed(<<>>, seq)
    ELSE LET resource == values[index + 1]
             member == flatten(resource, seq)
             rest == FlattenResourceMembers(container, values, index + 1, member.next)
         IN  Pushed(member.sts
                        \o <<Statement_new(container, rdf_member(index), resource.subject)>>
                        \o rest.sts,
                    rest.next)

\* A plausible slip in the container branch: the intermediary node is taken
\* without advancing the generator, so the next container gets it again.
FlattenContainer_SharedNode(subject, predicate, object, seq) ==
    LET c == IF object.variant = "Resources" THEN object.resources[1]
             ELSE object.literals[1]
        container == SubjectNode_blank(seq)
        members == IF object.variant = "Resources"
                   THEN FlattenResourceMembers(container, c.values, 0, seq)
                   ELSE Pushed(FlattenLiteralMembers(container, c.values), seq)
    IN  Pushed(<<Statement_new(subject, predicate, container),
                 Statement_new(container, rdf_a_type,
                               SubjectNode_named(ContainerClass(c.kind)))>>
                   \o members.sts,
               members.next)

\* The container branch of flatten
FlattenContainer(subject, predicate, object, seq) ==
    LET c == IF object.variant = "Resources" THEN object.resources[1]
             ELSE object.literals[1]
        container == SubjectNode_blank(seq)
        members == IF object.variant = "Resources"
                   THEN FlattenResourceMembers(container, c.values, 0, seq + 1)
                   ELSE Pushed(FlattenLiteralMembers(container, c.values), seq + 1)
    IN  Pushed(<<Statement_new(subject, predicate, container),
                 Statement_new(container, rdf_a_type,
                               SubjectNode_named(ContainerClass(c.kind)))>>
                   \o members.sts,
               members.next)

\* A plausible slip in the plain branch: the nested resource is not flattened.
FlattenPlain_NoNested(subject, predicate, object, seq) ==
    IF object.variant = "Resource"
    THEN Pushed(<<Statement_new(subject, predicate, object.resource[1].subject)>>, seq)
    ELSE Pushed(<<Statement_new(subject, predicate,
                                ObjectNode_literal(object.literal[1]))>>, seq)

\* A plausible slip in the plain branch: the link is pushed before the nested
\* resource is flattened.
FlattenPlain_LinkFirst(subject, predicate, object, seq) ==
    IF object.variant = "Resource"
    THEN LET nested == flatten(object.resource[1], seq)
         IN  Pushed(<<Statement_new(subject, predicate, object.resource[1].subject)>>
                        \o nested.sts,
                    nested.next)
    ELSE Pushed(<<Statement_new(subject, predicate,
                                ObjectNode_literal(object.literal[1]))>>, seq)

\* The plain branch of flatten
FlattenPlain(subject, predicate, object, seq) ==
    IF object.variant = "Resource"
    THEN LET nested == flatten(object.resource[1], seq)
         IN  Pushed(nested.sts
                        \o <<Statement_new(subject, predicate, object.resource[1].subject)>>,
                    nested.next)
    ELSE Pushed(<<Statement_new(subject, predicate,
                                ObjectNode_literal(object.literal[1]))>>, seq)

\* The body of for object in objects.iter()
FlattenObject(subject, predicate, object, seq) ==
    IF is_container(object)
    THEN FlattenContainer(subject, predicate, object, seq)
    ELSE FlattenPlain(subject, predicate, object, seq)

\* for object in objects.iter()
FlattenObjects(subject, predicate, objects, seq) ==
    IF objects = <<>> THEN Pushed(<<>>, seq)
    ELSE LET first == FlattenObject(subject, predicate, Head(objects), seq)
             rest == FlattenObjects(subject, predicate, Tail(objects), first.next)
         IN  Pushed(first.sts \o rest.sts, rest.next)

\* A plausible slip in the loop over the predicates: it returns after the
\* first predicate the map's iterator yields.
FlattenEntries_FirstOnly(subject, entries, seq) ==
    IF entries = <<>> THEN Pushed(<<>>, seq)
    ELSE FlattenObjects(subject, Head(entries).key, Head(entries).values, seq)

\* for (predicate, objects) in &resource.predicates
FlattenEntries(subject, entries, seq) ==
    IF entries = <<>> THEN Pushed(<<>>, seq)
    ELSE LET first == FlattenObjects(subject, Head(entries).key,
                                     Head(entries).values, seq)
             rest == FlattenEntries(subject, Tail(entries), first.next)
         IN  Pushed(first.sts \o rest.sts, rest.next)

\* flatten(resource, sts)
flatten(resource, seq) == FlattenEntries(resource.subject, resource.predicates, seq)

\* impl Into<Vec<Statement>> for Resource: flatten into an empty vector
Resource_into(self, seq) == flatten(self, seq)

(***************************************************************************)
(* The values the builder is called with.                                  *)
(***************************************************************************)
P1 == "http://example.org/p1"
P2 == "http://example.org/p2"
Predicates == {P1}
U == "http://example.org/U"
U2 == "http://example.org/U2"
KindIri == "http://example.org/Kind"
BlankName == "x"

Hello == Literal_new(<<"h", "i">>)
Truth == Literal_from_bool(TRUE)
Literals == {Hello, Truth}

\* Resources built beforehand and handed to the builder as values: a blank
\* node with one literal, and a blank node made by Resource::blank() holding
\* a sequence of one literal and, under a second predicate, the first one.
NestedLeaf ==
    Resource_insert(Resource_blank_named("n"), P2, ResourceObject_Literal(Hello), 0)
NestedTree ==
    Resource_insert(
        Resource_insert(Resource_blank(1), P2,
            ResourceObject_Literals(Container(ContainerKind("Seq", ""), <<Truth>>)), 0),
        P1, ResourceObject_Resource(NestedLeaf), 1)
NestedResources == {NestedLeaf, NestedTree}

\* The slices handed to the container methods: n members, alternating.
LiteralMember(i) == IF i % 2 = 1 THEN Hello ELSE Truth
ResourceMember(i) == IF i % 2 = 1 THEN NestedLeaf ELSE NestedTree
MemberCounts == {0, 1, MaxMembers}
LiteralSlices == {[i \in 1..n |-> LiteralMember(i)] : n \in MemberCounts}
ResourceSlices == {[i \in 1..n |-> ResourceMember(i)] : n \in MemberCounts}

NoBuilderCall == [predicate |-> None, object |-> None]

ResourceInit ==
    /\ res = None
    /\ twin = None
    /\ last = NoBuilderCall
    /\ calls = 0
    /\ nextBlank = 2
    /\ sts = None
    /\ sts2 = None

\* parse_graph has not been called.
NotReturned == [status |-> "none", graph |-> None, error |-> None]
ParserInit ==
    /\ input = None
    /\ pairs = <<>>
    /\ consumed = 0
    /\ graph = None
    /\ result = NotReturned

\* A constructor returns a resource; the twin is constructed the same way.
Created(r, r2, seq) ==
    /\ is_none(res)
    /\ res' = Some(r)
    /\ twin' = Some(r2)
    /\ nextBlank' = seq
    /\ UNCHANGED <<last, calls, sts, sts2>>

ResourceNew ==
    /\ \E subject \in {SubjectNode_named(U), SubjectNode_blank_named(BlankName)} :
            Created(Resource_new(subject), Resource_new(subject), nextBlank)
    /\ UNCHANGED <<literalVars, parserVars, predicateVars, writerVars, skosVars>>

ResourceBlank ==
    /\ Created(Resource_blank(nextBlank), Resource_blank(nextBlank + 1), nextBlank + 2)
    /\ UNCHANGED <<literalVars, parserVars, predicateVars, writerVars, skosVars>>

ResourceBlankNamed ==
    /\ Created(Resource_blank_named(BlankName), Resource_blank_named(BlankName), nextBlank)
    /\ UNCHANGED <<literalVars, parserVars, predicateVars, writerVars, skosVars>>

ResourceNamed ==
    /\ Created(Resource_named(U), Resource_named(U), nextBlank)
    /\ UNCHANGED <<literalVars, parserVars, predicateVars, writerVars, skosVars>>

\* The places a key the map does not hold may take among its entries.
Slots(r, predicate) ==
    IF contains_key(r.predicates, predicate) THEN {0} ELSE 0..Len(r.predicates)

\* A builder method ends in self.insert(predicate, object), on the resource
\* and on its twin.
Inserted(predicate, object) ==
    /\ is_some(res)
    /\ is_none(sts)
    /\ calls < MaxCalls
    /\ \E slot \in Slots(res[1], predicate), slot2 \in Slots(twin[1], predicate) :
        /\ res' = Some(Resource_insert(res[1], predicate, object, slot))
        /\ twin' = Some(Resource_insert(twin[1], predicate, object, slot2))
    /\ last' = [predicate |-> Some(predicate), object |-> Some(object)]
    /\ calls' = calls + 1
    /\ UNCHANGED <<nextBlank, sts, sts2>>

\* Resource::property, value_of, literal
Property ==
    /\ \E predicate \in Predicates, value \in Literals :
            Inserted(predicate, ResourceObject_Literal(value))
    /\ UNCHANGED <<literalVars, parserVars, predicateVars, writerVars, skosVars>>
ValueOf ==
    /\ \E predicate \in Predicates, value \in Literals :
            Inserted(predicate, ResourceObject_Literal(value))
    /\ UNCHANGED <<literalVars, parserVars, predicateVars, writerVars, skosVars>>
LiteralValue ==
    /\ \E predicate \in Predicates, value \in Literals :
            Inserted(predicate, ResourceObject_Literal(value))
    /\ UNCHANGED <<literalVars, parserVars, predicateVars, writerVars, skosVars>>

\* Resource::property_alternatives, property_bag, property_sequence, property_container
PropertyAlternatives ==
    /\ \E predicate \in Predicates, values \in LiteralSlices :
            Inserted(predicate,
                     ResourceObject_Literals(Container(ContainerKind("Alt", ""), values)))
    /\ UNCHANGED <<literalVars, parserVars, predicateVars, writerVars, skosVars>>
PropertyBag ==
    /\ \E predicate \in Predicates, values \in LiteralSlices :
            Inserted(predicate,
                     ResourceObject_Literals(Container(ContainerKind("Bag", ""), values)))
    /\ UNCHANGED <<literalVars, parserVars, predicateVars, writerVars, skosVars>>
PropertySequence ==
    /\ \E predicate \in Predicates, values \in LiteralSlices :
            Inserted(predicate,
                     ResourceObject_Literals(Container(ContainerKind("Seq", ""), values)))
    /\ UNCHANGED <<literalVars, parserVars, predicateVars, writerVars, skosVars>>
PropertyContainer ==
    /\ \E predicate \in Predicates, values \in LiteralSlices :
            Inserted(predicate,
                     ResourceObject_Literals(Container(ContainerKind("Other", KindIri), values)))
    /\ UNCHANGED <<literalVars, parserVars, predicateVars, writerVars, skosVars>>

\* Resource::resource_blank_named, resource_named, resource
ResourceBlankNamedValue ==
    /\ \E predicate \in Predicates :
            Inserted(predicate, ResourceObject_Resource(Resource_blank_named(BlankName)))
    /\ UNCHANGED <<literalVars, parserVars, predicateVars, writerVars, skosVars>>
ResourceNamedValue ==
    /\ \E predicate \in Predicates :
            Inserted(predicate, ResourceObject_Resource(Resource_named(U2)))
    /\ UNCHANGED <<literalVars, parserVars, predicateVars, writerVars, skosVars>>
ResourceValue ==
    /\ \E predicate \in Predicates, resource \in NestedResources :
            Inserted(predicate, ResourceObject_Resource(resource))
    /\ UNCHANGED <<literalVars, parserVars, predicateVars, writerVars, skosVars>>

\* Resource::resource_alternatives, resource_bag, resource_sequence, resource_container
ResourceAlternatives ==
    /\ \E predicate \in Predicates, values \in ResourceSlices :
            Inserted(predicate,
                     ResourceObject_Resources(Container(ContainerKind("Alt", ""), values)))
    /\ UNCHANGED <<literalVars, parserVars, predicateVars, writerVars, skosVars>>
ResourceBag ==
    /\ \E predicate \in Predicates, values \in ResourceSlices :
            Inserted(predicate,
                     ResourceObject_Resources(Container(ContainerKind("Bag", ""), values)))
    /\ UNCHANGED <<literalVars, parserVars, predicateVars, writerVars, skosVars>>
ResourceSequence ==
    /\ \E predicate \in Predicates, values \in ResourceSlices :
            Inserted(predicate,
                     ResourceObject_Resources(Container(ContainerKind("Seq", ""), values)))
    /\ UNCHANGED <<literalVars, parserVars, predicateVars, writerVars, skosVars>>
ResourceContainer ==
    /\ \E predicate \in Predicates, values \in ResourceSlices :
            Inserted(predicate,
                     ResourceObject_Resources(Container(ContainerKind("Other", KindIri), values)))
    /\ UNCHANGED <<literalVars, parserVars, predicateVars, writerVars, skosVars>>

\* Resource::instance_of
InstanceOf ==
    /\ Inserted(rdf_a_type, ResourceObject_Resource(Resource_named(U2)))
    /\ UNCHANGED <<literalVars, parserVars, predicateVars, writerVars, skosVars>>

\* let sts: Vec<Statement> = resource.into(), on the resource and on its twin
Flatten ==
    /\ is_some(res)
    /\ is_none(sts)
    /\ LET first == Resource_into(res[1], nextBlank)
           second == Resource_into(twin[1], first.next)
       IN  /\ sts' = Some(first.sts)
           /\ sts2' = Some(second.sts)
           /\ nextBlank' = second.next
    /\ UNCHANGED <<res, twin, last, calls>>
    /\ UNCHANGED <<literalVars, parserVars, predicateVars, writerVars, skosVars>>

ResourceNext ==
    \/ ResourceNew
    \/ ResourceBlank
    \/ ResourceBlankNamed
    \/ ResourceNamed
    \/ Property
    \/ ValueOf
    \/ LiteralValue
    \/ PropertyAlternatives
    \/ PropertyBag
    \/ PropertySequence
    \/ PropertyContainer
    \/ ResourceBlankNamedValue
    \/ ResourceNamedValue
    \/ ResourceValue
    \/ ResourceAlternatives
    \/ ResourceBag
    \/ ResourceSequence
    \/ ResourceContainer
    \/ InstanceOf
    \/ Flatten

(***************************************************************************)
(* The Predicate builder and Resource::predicate (resource.rs).  A         *)
(* Predicate is built next to a resource on which the method of Resource   *)
(* of the same name is called with the predicate's IRI.                    *)
(***************************************************************************)
\* Predicate::new
Predicate_new(name) == [name |-> name, objects |-> <<>>]

\* self.objects.push(object), the body of every method of Predicate
Predicate_push(self, object) == [self EXCEPT !.objects = Append(@, object)]

RECURSIVE Resource_predicate(_, _, _)
RECURSIVE Resource_predicate_Reversed(_, _, _)
\* A plausible slip in predicate: the objects are taken from the last to the
\* first.
Resource_predicate_Reversed(self, predicate, slot) ==
    IF predicate.objects = <<>> THEN self
    ELSE Resource_predicate_Reversed(
             Resource_insert(self, predicate.name,
                             predicate.objects[Len(predicate.objects)], slot),
             [predicate EXCEPT !.objects = SubSeq(@, 1, Len(@) - 1)], slot)

\* Resource::predicate: for object in predicate.objects.into_iter()
Resource_predicate(self, predicate, slot) ==
    IF predicate.objects = <<>> THEN self
    ELSE Resource_predicate(
             Resource_insert(self, predicate.name, Head(predicate.objects), slot),
             [predicate EXCEPT !.objects = Tail(@)], slot)

\* The resource a Predicate is added to: it has a value of P1 and none of P2.
BaseResource == Resource_insert(Resource_named(U), P1, ResourceObject_Literal(Truth), 0)
PredicateNames == {P1, P2}

PredicateInit ==
    /\ pred = None
    /\ direct = BaseResource
    /\ viaPredicate = None

\* Predicate::new
PredicateNew ==
    /\ is_none(pred)
    /\ \E name \in PredicateNames : pred' = Some(Predicate_new(name))
    /\ UNCHANGED <<direct, viaPredicate>>
    /\ UNCHANGED <<literalVars, resourceVars, parserVars, writerVars, skosVars>>

\* A method of Predicate pushes an object; the method of Resource of the same
\* name, called with the predicate's IRI, inserts one.
PredicateCall(pushed, inserted) ==
    /\ is_some(pred)
    /\ is_none(viaPredicate)
    /\ Len(pred[1].objects) < MaxCalls
    /\ pred' = Some(Predicate_push(pred[1], pushed))
    /\ \E slot \in Slots(direct, pred[1].name) :
            direct' = Resource_insert(direct, pred[1].name, inserted, slot)
    /\ UNCHANGED viaPredicate

\* Predicate::property, value_of, literal
PredicateProperty ==
    /\ \E value \in Literals :
           PredicateCall(ResourceObject_Literal(value), ResourceObject_Literal(value))
    /\ UNCHANGED <<literalVars, resourceVars, parserVars, writerVars, skosVars>>
PredicateValueOf ==
    /\ \E value \in Literals :
           PredicateCall(ResourceObject_Literal(value), ResourceObject_Literal(value))
    /\ UNCHANGED <<literalVars, resourceVars, parserVars, writerVars, skosVars>>
PredicateLiteral ==
    /\ \E value \in Literals :
           PredicateCall(ResourceObject_Literal(value), ResourceObject_Literal(value))
    /\ UNCHANGED <<literalVars, resourceVars, parserVars, writerVars, skosVars>>

\* Predicate::property_alternatives, property_bag, property_sequence,
\* property_container
PredicatePropertyAlternatives ==
    /\ \E values \in LiteralSlices :
           PredicateCall(ResourceObject_Literals(Container(ContainerKind("Alt", ""), values)),
                         ResourceObject_Literals(Container(ContainerKind("Alt", ""), values)))
    /\ UNCHANGED <<literalVars, resourceVars, parserVars, writerVars, skosVars>>
PredicatePropertyBag ==
    /\ \E values \in LiteralSlices :
           PredicateCall(ResourceObject_Literals(Container(ContainerKind("Bag", ""), values)),
                         ResourceObject_Literals(Container(ContainerKind("Bag", ""), values)))
    /\ UNCHANGED <<literalVars, resourceVars, parserVars, writerVars, skosVars>>
PredicatePropertySequence ==
    /\ \E values \in LiteralSlices :
           PredicateCall(ResourceObject_Literals(Container(ContainerKind("Seq", ""), values)),
                         ResourceObject_Literals(Container(ContainerKind("Seq", ""), values)))
    /\ UNCHANGED <<literalVars, resourceVars, parserVars, writerVars, skosVars>>
PredicatePropertyContainer ==
    /\ \E values \in LiteralSlices :
           PredicateCall(
               ResourceObject_Literals(Container(ContainerKind("Other", KindIri), values)),
               ResourceObject_Literals(Container(ContainerKind("Other", KindIri), values)))
    /\ UNCHANGED <<literalVars, resourceVars, parserVars, writerVars, skosVars>>

\* Predicate::resource_blank_named, resource_named, resource
PredicateResourceBlankNamed ==
    /\ PredicateCall(ResourceObject_Resource(Resource_blank_named(BlankName)),
                     ResourceObject_Resource(Resource_blank_named(BlankName)))
    /\ UNCHANGED <<literalVars, resourceVars, parserVars, writerVars, skosVars>>
PredicateResourceNamed ==
    /\ PredicateCall(ResourceObject_Resource(Resource_named(U2)),
                     ResourceObject_Resource(Resource_named(U2)))
    /\ UNCHANGED <<literalVars, resourceVars, parserVars, writerVars, skosVars>>
PredicateResource ==
    /\ \E resource \in NestedResources :
           PredicateCall(ResourceObject_Resource(resource), ResourceObject_Resource(resource))
    /\ UNCHANGED <<literalVars, resourceVars, parserVars, writerVars, skosVars>>

\* Predicate::resource_alternatives, resource_bag, resource_sequence,
\* resource_container
PredicateResourceAlternatives ==
    /\ \E values \in ResourceSlices :
           PredicateCall(ResourceObject_Resources(Container(ContainerKind("Alt", ""), values)),
                         ResourceObject_Resources(Container(ContainerKind("Alt", ""), values)))
    /\ UNCHANGED <<literalVars, resourceVars, parserVars, writerVars, skosVars>>
PredicateResourceBag ==
    /\ \E values \in ResourceSlices :
           PredicateCall(ResourceObject_Resources(Container(ContainerKind("Bag", ""), values)),
                         ResourceObject_Resources(Container(ContainerKind("Bag", ""), values)))
    /\ UNCHANGED <<literalVars, resourceVars, parserVars, writerVars, skosVars>>
PredicateResourceSequence ==
    /\ \E values \in ResourceSlices :
           PredicateCall(ResourceObject_Resources(Container(ContainerKind("Seq", ""), values)),
                         ResourceObject_Resources(Container(ContainerKind("Seq", ""), values)))
    /\ UNCHANGED <<literalVars, resourceVars, parserVars, writerVars, skosVars>>
PredicateResourceContainer ==
    /\ \E values \in ResourceSlices :
           PredicateCall(
               ResourceObject_Resources(Container(ContainerKind("Other", KindIri), values)),
               ResourceObject_Resources(Container(ContainerKind("Other", KindIri), values)))
    /\ UNCHANGED <<literalVars, resourceVars, parserVars, writerVars, skosVars>>

\* Resource::predicate on the resource as it was before the calls
ResourcePredicate ==
    /\ is_some(pred)
    /\ is_none(viaPredicate)
    /\ \E slot \in Slots(BaseResource, pred[1].name) :
            viaPredicate' = Some(Resource_predicate(BaseResource, pred[1], slot))
    /\ UNCHANGED <<pred, direct>>
    /\ UNCHANGED <<literalVars, resourceVars, parserVars, writerVars, skosVars>>

PredicateNext ==
    \/ PredicateNew
    \/ PredicateProperty
    \/ PredicateValueOf
    \/ PredicateLiteral
    \/ PredicatePropertyAlternatives
    \/ PredicatePropertyBag
    \/ PredicatePropertySequence
    \/ PredicatePropertyContainer
    \/ PredicateResourceBlankNamed
    \/ PredicateResourceNamed
    \/ PredicateResource
    \/ PredicateResourceAlternatives
    \/ PredicateResourceBag
    \/ PredicateResourceSequence
    \/ PredicateResourceContainer
    \/ ResourcePredicate

(***************************************************************************)
(* The N-Triples parser (rdftk_io, nt/parser/mod.rs).  The text of a pair  *)
(* is a sequence of tokens; a token is one character, or the scheme and    *)
(* authority of an IRI, or a whole data type IRI.  A function that returns *)
(* Result<T> returns Ok(v) or Err(e) here; one that can panic (unwrap on   *)
(* None) may also end in Panicked, which every caller passes on.           *)
(***************************************************************************)
\* Hexadecimal digits and the characters of the code points used here.
HexDigits == <<"0", "1", "2", "3", "4", "5", "6", "7", "8", "9",
               "A", "B", "C", "D", "E", "F">>
LowerHexDigits == <<"0", "1", "2", "3", "4", "5", "6", "7", "8", "9",
                    "a", "b", "c", "d", "e", "f">>
IsHexDigit(c) == \E d \in 1..16 : c = HexDigits[d] \/ c = LowerHexDigits[d]
HexDigitValue(c) == (CHOOSE d \in 1..16 : c = HexDigits[d] \/ c = LowerHexDigits[d]) - 1
AllHex(t) == \A i \in 1..Len(t) : IsHexDigit(t[i])

\* u32::from_str_radix(uchar, 16) on a string of at most 8 hexadecimal
\* digits, which cannot overflow.  Every value above 10FFFF is held as 110000:
\* char::from_u32, the one reader of the value, treats them all alike.
AboveMaxChar == 1114112
RECURSIVE from_str_radix_16(_)
from_str_radix_16(t) ==
    IF t = <<>> THEN 0
    ELSE LET value == from_str_radix_16(SubSeq(t, 1, Len(t) - 1)) * 16
                          + HexDigitValue(t[Len(t)])
         IN  IF value >= AboveMaxChar THEN AboveMaxChar ELSE value

\* char::from_u32: None for a surrogate and for a value above 10FFFF.
\* A character is a one-character token; one the model has no token for is
\* named by its code point.
CharOf(n) ==
    CASE n = 9 -> Tab
      [] n = 12 -> FormFeed
      [] n = 32 -> " "
      [] n = 34 -> Quote
      [] n = 65 -> "A"
      [] n = 92 -> Backslash
      [] n = 97 -> "a"
      [] n = 115 -> "s"
      [] OTHER -> "U+" \o ToString(n)
char_from_u32(n) ==
    IF n >= AboveMaxChar \/ (n >= 55296 /\ n <= 57343) THEN None ELSE Some(CharOf(n))

Ok(v) == [status |-> "Ok", value |-> <<v>>, error |-> None]
Err(e) == [status |-> "Err", value |-> <<>>, error |-> Some(e)]
Panicked == [status |-> "Panic", value |-> <<>>, error |-> None]
ErrorKind(kind, text) == [kind |-> kind, text |-> text]

\* let v = r?; F(v): what is not Ok is returned as it is
AndThen(r, F(_)) == IF r.status # "Ok" THEN r ELSE F(r.value[1])

\* &text[from..to], with Rust's offsets
Slice(text, from, to) == SubSeq(text, from + 1, to)

\* to_string() of a slice: the tokens as one string
RECURSIVE Join(_)
Join(text) == IF text = <<>> THEN "" ELSE Head(text) \o Join(Tail(text))

\* pest's Pair: as_rule(), as_str(), into_inner()
Pair(rule, text, inner) == [rule |-> rule, text |-> text, inner |-> inner]

\* unexpected!(function, pair)
unexpected(function, pair) == Err(ErrorKind("Unexpected", function \o ":" \o pair.rule))

\* IRI::from_str and IRI::is_relative_reference: an IRI is its text and
\* whether it lacks a scheme; text with a space in it is not an IRI.
AbsolutePrefixes == {"http://a/", xsd_string}
IRI_from_str(text) ==
    IF \E i \in 1..Len(text) : text[i] = " "
    THEN Err(ErrorKind("IriSyntax", Join(text)))
    ELSE Ok([text |-> Join(text),
             relative |-> (text = <<>> \/ Head(text) \notin AbsolutePrefixes)])
is_relative_reference(i) == i.relative

\* LanguageTag::from_str: the tag as written when its subtags are of 1 to 8
\* characters each, an error otherwise.
MaxSubtagLen == 8
RECURSIVE SubtagsFit(_, _)
SubtagsFit(tag, run) ==
    IF tag = <<>> THEN run >= 1
    ELSE IF Head(tag) = "-" THEN run >= 1 /\ SubtagsFit(Tail(tag), 0)
    ELSE run + 1 <= MaxSubtagLen /\ SubtagsFit(Tail(tag), run + 1)
LanguageTag_from_str(tag) ==
    IF SubtagsFit(tag, 0) THEN Ok(tag) ELSE Err(ErrorKind("LanguageTag", Join(tag)))

\* LiteralFactory: literal, with_data_type, with_language are the
\* constructors of a Literal, which escape the string they are given.
LiteralFactory_literal(v) == Literal_new(v)
LiteralFactory_with_data_type(v, data_type) == Literal_with_type(v, data_type)
LiteralFactory_with_language(v, language) == Literal_with_language(v, language)

\* StatementFactory: named_subject, blank_subject_named, named_object,
\* blank_object_named, literal_object, statement
named_subject(i) == SubjectNode_named(i.text)
blank_subject_named(name) == Ok(SubjectNode_blank_named(name))
named_object(i) == SubjectNode_named(i.text)
blank_object_named(name) == Ok(SubjectNode_blank_named(name))
literal_object(literal) == ObjectNode_literal(literal)
statement(subject, predicate, object) == Ok(Statement_new(subject, predicate.text, object))

\* GraphFactory::graph and Graph::insert: a graph is the statements inserted
\* into it, in the order of the insertions.
GraphFactory_graph == <<>>
Graph_insert(g, st) == Append(g, st)

\* unescape_uchar
unescape_uchar(uchar) ==
    LET digits == Slice(uchar, 2, Len(uchar))
        uchar_u32 == from_str_radix_16(digits)
        c == char_from_u32(uchar_u32)
    IN  IF is_some(c) THEN Ok(c[1]) ELSE Panicked

\* UNICODE_ESC: the length of its match at an offset of the text, 0 for
\* none: (\\U[[:xdigit:]]{8})|(\\u[[:xdigit:]]{4})
LongEscapeLen == 10
ShortEscapeLen == 6
MatchAt(text, at) ==
    IF at + 2 <= Len(text) /\ text[at + 1] = Backslash
    THEN IF /\ text[at + 2] = "U"
            /\ at + LongEscapeLen <= Len(text)
            /\ AllHex(Slice(text, at + 2, at + LongEscapeLen))
         THEN LongEscapeLen
         ELSE IF /\ text[at + 2] = "u"
                 /\ at + ShortEscapeLen <= Len(text)
                 /\ AllHex(Slice(text, at + 2, at + ShortEscapeLen))
         THEN ShortEscapeLen
         ELSE 0
    ELSE 0

\* UNICODE_ESC.captures_iter(iri), from an offset on: the matches, leftmost
\* first, none overlapping another
RECURSIVE captures_iter(_, _)
captures_iter(text, at) ==
    IF at >= Len(text) THEN <<>>
    ELSE IF MatchAt(text, at) > 0
    THEN <<[start |-> at, end |-> at + MatchAt(text, at)]>>
             \o captures_iter(text, at + MatchAt(text, at))
    ELSE captures_iter(text, at + 1)

\* The fold of unescape_iri over the captures: (so_far, start) becomes
\* (so_far + iri[start..cap.start()] + unescape_uchar(cap), cap.end()).
RECURSIVE UnescapeFold(_, _, _, _)
UnescapeFold(text, caps, so_far, start) ==
    IF caps = <<>> THEN [status |-> "Ok", so_far |-> so_far, end |-> start]
    ELSE LET cap == Head(caps)
             c == unescape_uchar(Slice(text, cap.start, cap.end))
         IN  IF c.status # "Ok"
             THEN [status |-> c.status, so_far |-> so_far, end |-> start]
             ELSE UnescapeFold(text, Tail(caps),
                               so_far \o Slice(text, start, cap.start) \o c.value,
                               cap.end)

\* A plausible slip in unescape_iri: the text after the last escape is left
\* out.
unescape_iri_DropsTail(text) ==
    LET folded == UnescapeFold(text, captures_iter(text, 0), <<>>, 0)
    IN  IF folded.status # "Ok" THEN Panicked ELSE Ok(folded.so_far)

\* unescape_iri
unescape_iri(text) ==
    LET folded == UnescapeFold(text, captures_iter(text, 0), <<>>, 0)
    IN  IF folded.status # "Ok" THEN Panicked
        ELSE Ok(folded.so_far \o Slice(text, folded.end, Len(text)))

\* The end of iri_ref: the IRI when it is not a relative reference
AbsoluteOrErr(i, iri_str) ==
    IF ~is_relative_reference(i) THEN Ok(i)
    ELSE Err(ErrorKind("AbsoluteIriExpected", Join(iri_str)))

\* A plausible slip in iri_ref: the test for a relative reference is left out.
iri_ref_AcceptsRelative(input_pair) ==
    IF input_pair.rule = "IRIREF"
    THEN AndThen(unescape_iri(Slice(input_pair.text, 1, Len(input_pair.text) - 1)),
                 LAMBDA iri_str : IRI_from_str(iri_str))
    ELSE unexpected("iri_ref", input_pair)

\* iri_ref
iri_ref(input_pair) ==
    IF input_pair.rule = "IRIREF"
    THEN AndThen(unescape_iri(Slice(input_pair.text, 1, Len(input_pair.text) - 1)),
                 LAMBDA iri_str :
                     AndThen(IRI_from_str(iri_str),
                             LAMBDA i : AbsoluteOrErr(i, iri_str)))
    ELSE unexpected("iri_ref", input_pair)

\* iri
parse_iri(input_pair) ==
    IF input_pair.rule = "iri"
    THEN IF input_pair.inner[1].rule = "IRIREF"
         THEN iri_ref(input_pair.inner[1])
         ELSE unexpected("iri", input_pair.inner[1])
    ELSE unexpected("iri", input_pair)

\* lang_tag
lang_tag(input_pair) ==
    IF input_pair.rule = "LANGTAG"
    THEN LanguageTag_from_str(Slice(input_pair.text, 1, Len(input_pair.text)))
    ELSE unexpected("lang_tag", input_pair)

\* string
parse_string(input_pair) ==
    IF input_pair.rule = "String"
    THEN LET inner_pair == input_pair.inner[1]
         IN  IF inner_pair.rule = "STRING_LITERAL_QUOTE"
             THEN IF inner_pair.inner[1].rule = "QUOTE_INNER"
                  THEN Ok(inner_pair.inner[1].text)
                  ELSE unexpected("string", inner_pair.inner[1])
             ELSE unexpected("string", inner_pair)
    ELSE unexpected("string", input_pair)

\* A plausible slip in the arm Rule::iri: the IRI of xsd:string is stored as
\* the built-in variant.
rdf_literal_iri_Normalises(lexical_form, other) ==
    AndThen(parse_iri(other),
            LAMBDA i : Ok(LiteralFactory_with_data_type(
                              lexical_form,
                              IF i.text = xsd_string THEN DT("String")
                              ELSE DataType_Other(i.text))))

\* The arm Rule::iri of rdf_literal
rdf_literal_iri(lexical_form, other) ==
    AndThen(parse_iri(other),
            LAMBDA i : Ok(LiteralFactory_with_data_type(lexical_form,
                                                        DataType_Other(i.text))))

\* The arm Rule::LANGTAG of rdf_literal
rdf_literal_lang(lexical_form, other) ==
    AndThen(lang_tag(other),
            LAMBDA tag : Ok(LiteralFactory_with_language(lexical_form, tag)))

\* if let Some(other) = inner_pair.next() of rdf_literal
rdf_literal_suffix(lexical_form, inner_pair) ==
    IF Len(inner_pair) >= 2
    THEN CASE inner_pair[2].rule = "iri" -> rdf_literal_iri(lexical_form, inner_pair[2])
           [] inner_pair[2].rule = "LANGTAG" -> rdf_literal_lang(lexical_form, inner_pair[2])
           [] OTHER -> unexpected("literal", inner_pair[2])
    ELSE Ok(LiteralFactory_literal(lexical_form))

\* rdf_literal
rdf_literal(input_pair) ==
    IF input_pair.rule = "rdfLiteral"
    THEN AndThen(parse_string(input_pair.inner[1]),
                 LAMBDA lexical_form : rdf_literal_suffix(lexical_form, input_pair.inner))
    ELSE unexpected("literal", input_pair)

\* literal
parse_literal(input_pair) ==
    IF input_pair.rule = "literal"
    THEN rdf_literal(input_pair.inner[1])
    ELSE unexpected("literal", input_pair)

\* The arm Rule::BlankNode of subject and of object: strip the leading '_:'
BlankNodeName(inner_pair) == Join(Slice(inner_pair.text, 2, Len(inner_pair.text)))

\* subject
parse_subject(input_pair) ==
    IF input_pair.rule = "subject"
    THEN CASE input_pair.inner[1].rule = "IRIREF" ->
                  AndThen(iri_ref(input_pair.inner[1]), LAMBDA i : Ok(named_subject(i)))
            [] input_pair.inner[1].rule = "BlankNode" ->
                  blank_subject_named(BlankNodeName(input_pair.inner[1]))
            [] OTHER -> unexpected("subject", input_pair.inner[1])
    ELSE unexpected("subject", input_pair)

\* predicate
parse_predicate(input_pair) ==
    IF input_pair.rule = "predicate"
    THEN IF input_pair.inner[1].rule = "IRIREF"
         THEN iri_ref(input_pair.inner[1])
         ELSE unexpected("subject", input_pair.inner[1])
    ELSE unexpected("subject", input_pair)

\* A plausible slip in the arm Rule::BlankNode of object: only the '_' is
\* stripped.
object_blank_KeepsColon(inner_pair) ==
    blank_object_named(Join(Slice(inner_pair.text, 1, Len(inner_pair.text))))

\* The arm Rule::BlankNode of object
object_blank(inner_pair) == blank_object_named(BlankNodeName(inner_pair))

\* object
parse_object(input_pair) ==
    IF input_pair.rule = "object"
    THEN CASE input_pair.inner[1].rule = "IRIREF" ->
                  AndThen(iri_ref(input_pair.inner[1]), LAMBDA i : Ok(named_object(i)))
            [] input_pair.inner[1].rule = "BlankNode" -> object_blank(input_pair.inner[1])
            [] input_pair.inner[1].rule = "literal" ->
                  AndThen(parse_literal(input_pair.inner[1]),
                          LAMBDA l : Ok(literal_object(l)))
            [] OTHER -> unexpected("object", input_pair.inner[1])
    ELSE unexpected("object", input_pair)

\* triple
parse_triple(input_pair) ==
    IF input_pair.rule = "triple"
    THEN AndThen(parse_subject(input_pair.inner[1]), LAMBDA s :
         AndThen(parse_predicate(input_pair.inner[2]), LAMBDA p :
         AndThen(parse_object(input_pair.inner[3]), LAMBDA o :
         statement(s, p, o))))
    ELSE unexpected("triple", input_pair)

(***************************************************************************)
(* The grammar nt/nt.pest, on a document that is a sequence of lines.  A   *)
(* line holds the terms written on it, whether it ends in a period, and    *)
(* whether a comment follows.  A term is its text and the text of the      *)
(* suffix of a literal.                                                    *)
(***************************************************************************)
Term(rule, text, suffix_rule, suffix_text) ==
    [rule |-> rule, text |-> text, suffix_rule |-> suffix_rule, suffix_text |-> suffix_text]
IRIREF(content) == Term("IRIREF", <<"<">> \o content \o <<">">>, "none", <<>>)
BlankNode(label) == Term("BlankNode", <<"_", ":">> \o label, "none", <<>>)
PlainLiteral(inner) == Term("literal", <<Quote>> \o inner \o <<Quote>>, "none", <<>>)
TypedLiteral(inner, content) ==
    Term("literal", <<Quote>> \o inner \o <<Quote>>, "iri", <<"<">> \o content \o <<">">>)
LangLiteral(inner, tag) ==
    Term("literal", <<Quote>> \o inner \o <<Quote>>, "LANGTAG", <<"@">> \o tag)
Line(terms, dot, comment) == [terms |-> terms, dot |-> dot, comment |-> comment]

\* IRIREF: between the angle brackets a backslash starts a \uXXXX or a
\* \UXXXXXXXX, and no character is a space, a quote or an angle bracket.
RECURSIVE IsIRIREFContent(_, _)
IsIRIREFContent(content, at) ==
    IF at >= Len(content) THEN TRUE
    ELSE IF content[at + 1] = Backslash
    THEN MatchAt(content, at) > 0 /\ IsIRIREFContent(content, at + MatchAt(content, at))
    ELSE content[at + 1] \notin {" ", Quote, "<", ">"} /\ IsIRIREFContent(content, at + 1)
IsIRIREF(text) ==
    /\ Len(text) >= 2
    /\ Head(text) = "<"
    /\ text[Len(text)] = ">"
    /\ IsIRIREFContent(Slice(text, 1, Len(text) - 1), 0)

\* QUOTE_INNER: a backslash is followed by a character it escapes, and no
\* quote stands without one.
RECURSIVE IsQuoteInner(_)
IsQuoteInner(inner) ==
    IF inner = <<>> THEN TRUE
    ELSE IF Head(inner) = Backslash
    THEN /\ Len(inner) >= 2
         /\ inner[2] \in {"t", "b", "n", "r", "f", Quote, "'", Backslash}
         /\ IsQuoteInner(Slice(inner, 2, Len(inner)))
    ELSE Head(inner) # Quote /\ IsQuoteInner(Tail(inner))

IsTerm(term) ==
    CASE term.rule = "IRIREF" -> IsIRIREF(term.text)
      [] term.rule = "BlankNode" -> Len(term.text) >= 3
      [] term.rule = "literal" ->
            /\ IsQuoteInner(Slice(term.text, 1, Len(term.text) - 1))
            /\ term.suffix_rule = "iri" => IsIRIREF(term.suffix_text)
            /\ term.suffix_rule = "LANGTAG" => Len(term.suffix_text) >= 2

\* triple := subject predicate object '.'
IsTriple(line) ==
    /\ Len(line.terms) = 3
    /\ line.dot
    /\ line.terms[1].rule \in {"IRIREF", "BlankNode"}
    /\ line.terms[2].rule = "IRIREF"
    /\ line.terms[3].rule \in {"IRIREF", "BlankNode", "literal"}
    /\ \A k \in 1..3 : IsTerm(line.terms[k])

\* A line of white space, with or without a comment
IsBlankLine(line) == line.terms = <<>> /\ ~line.dot

\* The pairs of the parse tree.
LeafPair(term) == Pair(term.rule, term.text, <<>>)
StringPair(text) ==
    Pair("String", text,
         <<Pair("STRING_LITERAL_QUOTE", text,
                <<Pair("QUOTE_INNER", Slice(text, 1, Len(text) - 1), <<>>)>>)>>)
SuffixPairs(term) ==
    CASE term.suffix_rule = "iri" ->
            <<Pair("iri", term.suffix_text, <<Pair("IRIREF", term.suffix_text, <<>>)>>)>>
      [] term.suffix_rule = "LANGTAG" -> <<Pair("LANGTAG", term.suffix_text, <<>>)>>
      [] OTHER -> <<>>
LiteralPair(term) ==
    Pair("literal", term.text,
         <<Pair("rdfLiteral", term.text, <<StringPair(term.text)>> \o SuffixPairs(term))>>)
TermPair(term) == IF term.rule = "literal" THEN LiteralPair(term) ELSE LeafPair(term)
TriplePair(line) ==
    Pair("triple", <<>>,
         <<Pair("subject", line.terms[1].text, <<TermPair(line.terms[1])>>),
           Pair("predicate", line.terms[2].text, <<TermPair(line.terms[2])>>),
           Pair("object", line.terms[3].text, <<TermPair(line.terms[3])>>)>>)

\* The lines of a document that hold a triple, in file order.
TripleLines(doc) == SelectSeq(doc, IsTriple)

\* NTripleParser::parse(Rule::ntriplesDoc, input): the pair of the document,
\* holding a pair per triple and the pair of the end of input, or an error.
NTripleParser_parse(doc) ==
    IF \A k \in 1..Len(doc) : IsTriple(doc[k]) \/ IsBlankLine(doc[k])
    THEN Ok(Pair("ntriplesDoc", <<>>,
                 [k \in 1..Len(TripleLines(doc)) |-> TriplePair(TripleLines(doc)[k])]
                     \o <<Pair("EOI", <<>>, <<>>)>>))
    ELSE Err(ErrorKind("Parser", "ntriplesDoc"))

\* A plausible slip in the arm Rule::triple: the statement is put in front of
\* the ones inserted before it.
ntriples_doc_triple_InsertsFirst(g, inner_pair) ==
    AndThen(parse_triple(inner_pair), LAMBDA st : Ok(<<st>> \o g))

\* The arm Rule::triple of ntriples_doc: the graph after graph.insert(st),
\* or what triple(..)? returns with
ntriples_doc_triple(g, inner_pair) ==
    AndThen(parse_triple(inner_pair), LAMBDA st : Ok(Graph_insert(g, st)))

(***************************************************************************)
(* The documents parse_graph is called with.                               *)
(***************************************************************************)
UShort(a, b, c, d) == <<Backslash, "u", a, b, c, d>>
ULong(a, b, c, d, e, f, g, h) == <<Backslash, "U", a, b, c, d, e, f, g, h>>
IriS == <<"http://a/", "s">>
IriP == <<"http://a/", "p">>
IriO == <<"http://a/", "o">>
IriEscaped ==
    <<"http://a/">> \o UShort("0", "0", "4", "1") \o <<"s">>
        \o ULong("0", "0", "0", "0", "0", "0", "4", "1")
IriSurrogate == <<"http://a/">> \o UShort("D", "8", "0", "0")
IriTooBig == <<"http://a/">> \o ULong("0", "0", "1", "1", "0", "0", "0", "0")
IriRelative == <<"s">>
IriRelativeEscaped == UShort("0", "0", "4", "1")
IriSpaceEscaped == <<"http://a/">> \o UShort("0", "0", "2", "0")
IriBadEscape == <<"http://a/", Backslash, "u", "0", "0">>
Hi == <<"h", "i">>
QuotedInner == <<"a", Backslash, Quote, "b">>

LineSamples ==
    {Line(<<IRIREF(IriS), IRIREF(IriP), LangLiteral(Hi, <<"e", "n">>)>>, TRUE, FALSE),
     Line(<<IRIREF(IriS), IRIREF(IriP)>>, TRUE, FALSE),
     Line(<<BlankNode(<<"b">>), IRIREF(IriP), BlankNode(<<"b">>)>>, TRUE, TRUE),
     Line(<<BlankNode(<<"c">>), IRIREF(IriP), BlankNode(<<"b">>)>>, TRUE, FALSE),
     Line(<<>>, FALSE, TRUE),
     Line(<<IRIREF(IriRelative), IRIREF(IriP), IRIREF(IriO)>>, TRUE, FALSE),
     Line(<<IRIREF(IriS), IRIREF(IriP), TypedLiteral(QuotedInner, <<xsd_string>>)>>,
          TRUE, TRUE),
     Line(<<IRIREF(IriEscaped), IRIREF(IriP), PlainLiteral(<<"x">>)>>, TRUE, FALSE),
     Line(<<IRIREF(IriSurrogate), IRIREF(IriP), IRIREF(IriO)>>, TRUE, FALSE),
     Line(<<IRIREF(IriS), IRIREF(IriP), IRIREF(IriTooBig)>>, TRUE, FALSE),
     Line(<<IRIREF(IriS), IRIREF(IriP),
            LangLiteral(Hi, <<"a", "b", "c", "d", "e", "f", "g", "h", "i">>)>>,
          TRUE, FALSE),
     Line(<<IRIREF(IriS), IRIREF(IriRelativeEscaped), IRIREF(IriO)>>, TRUE, FALSE),
     Line(<<IRIREF(IriS), IRIREF(IriP), TypedLiteral(<<"x">>, IriRelative)>>, TRUE, FALSE),
     Line(<<IRIREF(IriS), IRIREF(IriP), LangLiteral(Hi, <<"E", "N">>)>>, TRUE, FALSE),
     Line(<<IRIREF(IriS), IRIREF(IriSpaceEscaped), IRIREF(IriO)>>, TRUE, FALSE),
     Line(<<IRIREF(IriS), IRIREF(IriP), IRIREF(IriBadEscape)>>, TRUE, FALSE)}

Documents == UNION {[1..n -> LineSamples] : n \in 0..MaxLines}

(***************************************************************************)
(* parse_graph and ntriples_doc, a step per pair of the document.          *)
(***************************************************************************)
Running == [status |-> "running", graph |-> None, error |-> None]
ReturnedOk(g) == [status |-> "Ok", graph |-> Some(g), error |-> None]
ReturnedErr(e) == [status |-> "Err", graph |-> None, error |-> e]
Unwound == [status |-> "Panic", graph |-> None, error |-> None]

\* What ntriples_doc ends with when a callee did not return Ok, and the graph
\* it holds after a turn of its loop.
Ended(r) == IF r.status = "Panic" THEN Unwound ELSE ReturnedErr(r.error)
ResultAfter(r) == IF r.status = "Ok" THEN Running ELSE Ended(r)
GraphAfter(r) == IF r.status = "Ok" THEN r.value ELSE None

\* parse_graph up to the loop of ntriples_doc: the grammar is matched
\* against the whole input, then the graph is made.
ParseGraph ==
    /\ is_none(input)
    /\ \E doc \in Documents :
        LET parsed == NTripleParser_parse(doc)
            top_node == parsed.value[1]
        IN  /\ input' = Some(doc)
            /\ consumed' = 0
            /\ IF parsed.status # "Ok"
               THEN /\ pairs' = <<>>
                    /\ graph' = None
                    /\ result' = Ended(parsed)
               ELSE IF top_node.rule = "ntriplesDoc"
               THEN /\ pairs' = top_node.inner
                    /\ graph' = Some(GraphFactory_graph)
                    /\ result' = Running
               ELSE /\ pairs' = <<>>
                    /\ graph' = None
                    /\ result' = Ended(unexpected("ntriples_doc", top_node))
    /\ UNCHANGED <<literalVars, resourceVars, predicateVars, writerVars, skosVars>>

\* The arms of match inner_pair.as_rule() in ntriples_doc: the graph to go
\* on with, or the error to return
ntriples_doc_pair(g, inner_pair) ==
    CASE inner_pair.rule = "triple" -> ntriples_doc_triple(g, inner_pair)
      [] inner_pair.rule = "EOI" -> Ok(g)
      [] OTHER -> unexpected("ntriples_doc", inner_pair)

\* One turn of for inner_pair in input_pair.into_inner()
NtriplesDocPair ==
    /\ result.status = "running"
    /\ consumed < Len(pairs)
    /\ LET turn == ntriples_doc_pair(graph[1], pairs[consumed + 1])
       IN  /\ graph' = GraphAfter(turn)
           /\ result' = ResultAfter(turn)
    /\ consumed' = consumed + 1
    /\ UNCHANGED <<input, pairs>>
    /\ UNCHANGED <<literalVars, resourceVars, predicateVars, writerVars, skosVars>>

\* Ok(graph), after the loop
NtriplesDocReturn ==
    /\ result.status = "running"
    /\ consumed = Len(pairs)
    /\ result' = ReturnedOk(graph[1])
    /\ UNCHANGED <<input, pairs, consumed, graph>>
    /\ UNCHANGED <<literalVars, resourceVars, predicateVars, writerVars, skosVars>>

ParserNext ==
    \/ ParseGraph
    \/ NtriplesDocPair
    \/ NtriplesDocReturn

(***************************************************************************)
(* The Turtle writer (rdftk_io, turtle/writer.rs).                         *)
(***************************************************************************)
(***************************************************************************)
(* The Turtle writer (rdftk_io, turtle/writer.rs).  The sink takes one     *)
(* chunk for each write! and writeln! of the code: a chunk is the text     *)
(* written, kept as its kind (the fixed part of the format string) and its *)
(* argument (the text formatted into it).  The graph, the nodes, the       *)
(* prefix mappings and the Indenter are collaborators of the writer.       *)
(***************************************************************************)
MaxStack == 4
MaxFail == 4 * MaxStack

\* The nodes of a graph: the text of an IRI is a sequence of parts, the
\* label of a blank node a sequence of one part.
GraphNamed(name) == [t |-> "iri", name |-> name, literal |-> None]
GraphBlank(label) == [t |-> "blank", name |-> label, literal |-> None]
GraphLiteral(literal) == [t |-> "literal", name |-> <<>>, literal |-> Some(literal)]
is_iri(node) == node.t = "iri"
Triple(subject, predicate, object) ==
    [subject |-> subject, predicate |-> predicate, object |-> object]

\* String::starts_with and the slice after the prefix
starts_with(text, prefix) ==
    /\ Len(prefix) <= Len(text)
    /\ SubSeq(text, 1, Len(prefix)) = prefix
StripPrefix(text, prefix) == SubSeq(text, Len(prefix) + 1, Len(text))

\* The values of a sequence without repetition, in the order of their
\* first appearance
RECURSIVE Distinct(_)
Distinct(seq) ==
    IF seq = <<>> THEN <<>>
    ELSE <<Head(seq)>> \o SelectSeq(Distinct(Tail(seq)), LAMBDA x : x # Head(seq))

\* Graph::subjects, predicates_for, objects_for over the statements of the
\* graph in the order of the graph
Graph_subjects(in_graph) ==
    Distinct([i \in 1..Len(in_graph.statements) |-> in_graph.statements[i].subject])
Graph_predicates_for(in_graph, subject) ==
    Distinct([i \in 1..Len(SelectSeq(in_graph.statements, LAMBDA st : st.subject = subject)) |->
                 SelectSeq(in_graph.statements, LAMBDA st : st.subject = subject)[i].predicate])
Graph_objects_for(in_graph, subject, predicate) ==
    Distinct([i \in 1..Len(SelectSeq(in_graph.statements,
                                     LAMBDA st : st.subject = subject /\ st.predicate = predicate)) |->
                 SelectSeq(in_graph.statements,
                           LAMBDA st : st.subject = subject /\ st.predicate = predicate)[i].object])

\* PrefixMappings::compress: the mapping of the longest namespace the IRI
\* starts with; the prefix of the default namespace is the empty string
Matching(mappings, name) ==
    {i \in 1..Len(mappings) : starts_with(name, mappings[i].namespace)}
Longest(mappings, name) ==
    CHOOSE i \in Matching(mappings, name) :
        \A j \in Matching(mappings, name) :
            Len(mappings[j].namespace) <= Len(mappings[i].namespace)
PrefixMappings_compress(mappings, name) ==
    IF Matching(mappings, name) = {} THEN None
    ELSE Some([prefix |-> mappings[Longest(mappings, name)].prefix,
               name |-> StripPrefix(name, mappings[Longest(mappings, name)].namespace)])

\* Indenter: Display and one() as the number of indentation steps written
Chunk(kind, arg) == [kind |-> kind, arg |-> arg]
Indentation(depth) == [i \in 1..depth |-> "  "]
Indenter_outdent(depth) == IF depth = 0 THEN 0 ELSE depth - 1

\* The result of a function that writes to w: how it ended, the sink after
\* it, and the value returned
WOk(w, value) == [status |-> "Ok", w |-> w, value |-> value]
WErr(w) == [status |-> "Err", w |-> w, value |-> <<>>]
WOverflow(w) == [status |-> "StackOverflow", w |-> w, value |-> <<>>]

\* One write!(w, ...) or writeln!(w, ...): the sink fails the attempt fail_at
\* (never, when fail_at is 0) and takes the chunk otherwise.
Put(w, chunk) ==
    IF w.attempts + 1 = w.fail_at
    THEN WErr([w EXCEPT !.attempts = @ + 1])
    ELSE WOk([w EXCEPT !.attempts = @ + 1, !.out = Append(@, chunk)], <<>>)

\* The operator ?: the error of r is returned, and the rest is not run
Try(r, F(_)) == IF r.status # "Ok" THEN r ELSE F(r)

\* What the sink does not hold: the calls of write_sub_graph made and the
\* IRIs written, kept for the properties
Entered(w, subject, depth) ==
    [w EXCEPT !.blocks = Append(@, [subject |-> subject, depth |-> depth])]
Rendered(r, name) ==
    IF r.status # "Ok" THEN r
    ELSE [r EXCEPT !.w.iris = @ \cup {[name |-> name, chunk |-> r.w.out[Len(r.w.out)]]}]

\* A plausible slip in write_iri: the prefix mappings are tried before the
\* base.
write_iri_PrefixFirst(w, self, name, mappings) ==
    IF is_some(PrefixMappings_compress(mappings, name))
    THEN Rendered(Put(w, Chunk("{}:{} ", <<PrefixMappings_compress(mappings, name)[1].prefix>>
                                           \o PrefixMappings_compress(mappings, name)[1].name)),
                  name)
    ELSE IF is_some(self.base) /\ starts_with(name, self.base[1])
    THEN Rendered(Put(w, Chunk("<{}> ", StripPrefix(name, self.base[1]))), name)
    ELSE Rendered(Put(w, Chunk("<{}> ", name)), name)

\* write_iri
write_iri(w, self, name, mappings) ==
    IF is_some(self.base) /\ starts_with(name, self.base[1])
    THEN Rendered(Put(w, Chunk("<{}> ", StripPrefix(name, self.base[1]))), name)
    ELSE IF is_none(PrefixMappings_compress(mappings, name))
    THEN Rendered(Put(w, Chunk("<{}> ", name)), name)
    ELSE Rendered(Put(w, Chunk("{}:{} ", <<PrefixMappings_compress(mappings, name)[1].prefix>>
                                           \o PrefixMappings_compress(mappings, name)[1].name)),
                  name)

\* write_literal
write_literal(w, self, literal, mappings) ==
    Put(w, Chunk("{} ", Literal_fmt(literal)))

\* write: the declaration of the base
write_base(w, self) ==
    IF is_none(self.base) THEN WOk(w, <<>>)
    ELSE IF self.options.use_sparql_style
    THEN Put(w, Chunk("BASE <{}>\n", self.base[1]))
    ELSE Put(w, Chunk("@base <{}> .\n", self.base[1]))

\* write: the declaration of a prefix mapping
write_prefix(w, self, mapping) ==
    IF self.options.use_sparql_style
    THEN Put(w, Chunk("PREFIX {}: <{}>\n", <<mapping.prefix>> \o mapping.namespace))
    ELSE Put(w, Chunk("@prefix {}: <{}> .\n", <<mapping.prefix>> \o mapping.namespace))

RECURSIVE write_prefixes(_, _, _)
write_prefixes(w, self, mappings) ==
    IF mappings = <<>> THEN WOk(w, <<>>)
    ELSE Try(write_prefix(w, self, Head(mappings)),
             LAMBDA r : write_prefixes(r.w, self, Tail(mappings)))

\* write_sub_graph: the subject
write_subject(w, self, subject, in_graph, depth) ==
    IF is_blank(subject) /\ depth = 0
    THEN Put(w, Chunk("_:{} ", subject.name))
    ELSE IF is_iri(subject)
    THEN write_iri(w, self, subject.name, in_graph.mappings)
    ELSE WOk(w, <<>>)

RECURSIVE write_sub_graph(_, _, _, _, _, _)
RECURSIVE write_objects(_, _, _, _, _, _, _)
RECURSIVE write_predicates(_, _, _, _, _, _, _, _)

\* write_sub_graph: a blank node object, nested
write_nested(w, self, object, in_graph, depth, blanks, stack) ==
    Try(Put(w, Chunk("[\n{}", Indentation(1))), LAMBDA opened :
    Try(write_sub_graph(opened.w, self, object, in_graph, depth, stack - 1), LAMBDA inner :
    Try(Put(inner.w, Chunk("{}]", Indentation(depth))), LAMBDA closed :
        WOk(closed.w, blanks \o <<object>> \o inner.value))))

\* A plausible slip in the writing of an object: the error of writing a
\* literal is dropped.
write_object_DropsError(w, self, object, in_graph, depth, blanks, stack) ==
    IF is_blank(object) /\ self.options.nest_blank_nodes
    THEN write_nested(w, self, object, in_graph, depth, blanks, stack)
    ELSE IF is_blank(object)
    THEN Try(Put(w, Chunk("_:{}", object.name)), LAMBDA r : WOk(r.w, blanks))
    ELSE IF is_iri(object)
    THEN Try(write_iri(w, self, object.name, in_graph.mappings), LAMBDA r : WOk(r.w, blanks))
    ELSE WOk(write_literal(w, self, object.literal[1], in_graph.mappings).w, blanks)

\* write_sub_graph: one object
write_object(w, self, object, in_graph, depth, blanks, stack) ==
    IF is_blank(object) /\ self.options.nest_blank_nodes
    THEN write_nested(w, self, object, in_graph, depth, blanks, stack)
    ELSE IF is_blank(object)
    THEN Try(Put(w, Chunk("_:{}", object.name)), LAMBDA r : WOk(r.w, blanks))
    ELSE IF is_iri(object)
    THEN Try(write_iri(w, self, object.name, in_graph.mappings), LAMBDA r : WOk(r.w, blanks))
    ELSE Try(write_literal(w, self, object.literal[1], in_graph.mappings),
             LAMBDA r : WOk(r.w, blanks))

\* write_sub_graph: the loop over the objects of a predicate
write_objects(w, self, objects, in_graph, depth, blanks, stack) ==
    IF objects = <<>> THEN WOk(w, blanks)
    ELSE Try(write_object(w, self, Head(objects), in_graph, depth, blanks, stack), LAMBDA one :
         Try(IF Tail(objects) # <<>> THEN Put(one.w, Chunk(",\n", <<>>)) ELSE WOk(one.w, <<>>),
             LAMBDA sep :
                 write_objects(sep.w, self, Tail(objects), in_graph, depth, one.value, stack)))

\* The indenter inside the loop over the objects
ObjectDepth(objects, depth) == IF Len(objects) > 1 THEN depth + 1 ELSE depth

\* write_sub_graph: the loop over the predicates of the subject
write_predicates(w, self, subject, predicates, in_graph, depth, blanks, stack) ==
    IF predicates = <<>> THEN WOk(w, blanks)
    ELSE Try(write_iri(w, self, Head(predicates), in_graph.mappings), LAMBDA named :
         Try(write_objects(named.w, self, Graph_objects_for(in_graph, subject, Head(predicates)),
                           in_graph,
                           ObjectDepth(Graph_objects_for(in_graph, subject, Head(predicates)), depth),
                           blanks, stack), LAMBDA objects :
         Try(IF Tail(predicates) # <<>>
             THEN Put(objects.w,
                      Chunk(";\n{}", Indentation(ObjectDepth(
                          Graph_objects_for(in_graph, subject, Head(predicates)), depth))))
             ELSE WOk(objects.w, <<>>), LAMBDA sep :
                 write_predicates(sep.w, self, subject, Tail(predicates), in_graph, depth,
                                  objects.value, stack))))

\* write_sub_graph; stack is the number of calls of it the stack has room
\* for
write_sub_graph(w, self, subject, in_graph, depth, stack) ==
    IF stack = 0 THEN WOverflow(w)
    ELSE Try(Put(Entered(w, subject, depth), Chunk("{}", Indentation(depth))), LAMBDA indented :
         Try(write_subject(indented.w, self, subject, in_graph, depth), LAMBDA named :
         Try(write_predicates(named.w, self, subject, Graph_predicates_for(in_graph, subject),
                              in_graph, depth + 1, <<>>, stack), LAMBDA predicates :
         Try(IF Indenter_outdent(depth + 1) = 0
             THEN Put(predicates.w, Chunk(".\n", <<>>))
             ELSE Put(predicates.w, Chunk("\n", <<>>)), LAMBDA ended :
                 WOk(ended.w, predicates.value)))))

\* write: the loop over the subjects of the graph; the value is the two
\* vectors of write
RECURSIVE write_subjects(_, _, _, _, _, _)
write_subjects(w, self, subjects, in_graph, blanks_to_write, blanks_written) ==
    IF subjects = <<>>
    THEN WOk(w, [blanks_to_write |-> blanks_to_write, blanks_written |-> blanks_written])
    ELSE IF is_blank(Head(subjects))
    THEN Try(Put(w, Chunk("\n", <<>>)), LAMBDA line :
             write_subjects(line.w, self, Tail(subjects), in_graph,
                            Append(blanks_to_write, Head(subjects)), blanks_written))
    ELSE Try(write_sub_graph(w, self, Head(subjects), in_graph, 0, MaxStack), LAMBDA inner :
         Try(Put(inner.w, Chunk("\n", <<>>)), LAMBDA line :
             write_subjects(line.w, self, Tail(subjects), in_graph,
                            blanks_to_write, blanks_written \o inner.value)))

\* write: the loop over the blank subjects
RECURSIVE write_blanks(_, _, _, _)
write_blanks(w, self, blanks_to_write, in_graph) ==
    IF blanks_to_write = <<>> THEN WOk(w, <<>>)
    ELSE Try(write_sub_graph(w, self, Head(blanks_to_write), in_graph, 0, MaxStack),
             LAMBDA inner : write_blanks(inner.w, self, Tail(blanks_to_write), in_graph))

\* blanks_to_write.retain(|subject| !blanks_written.contains(subject))
retain(blanks_to_write, blanks_written) ==
    SelectSeq(blanks_to_write,
              LAMBDA subject : \A i \in 1..Len(blanks_written) : blanks_written[i] # subject)

\* A plausible slip in write: the blank subjects are written before the
\* subjects that have an IRI.
TurtleWriter_write_BlanksFirst(w, self, in_graph) ==
    Try(write_base(w, self), LAMBDA base :
    Try(Put(base.w, Chunk("\n", <<>>)), LAMBDA line :
    Try(write_prefixes(line.w, self, in_graph.mappings), LAMBDA prefixes :
    Try(Put(prefixes.w, Chunk("\n", <<>>)), LAMBDA line2 :
    Try(write_blanks(line2.w, self,
                     SelectSeq(Graph_subjects(in_graph), LAMBDA subject : is_blank(subject)),
                     in_graph), LAMBDA blanks :
    Try(write_subjects(blanks.w, self,
                       SelectSeq(Graph_subjects(in_graph), LAMBDA subject : is_iri(subject)),
                       in_graph, <<>>, <<>>), LAMBDA subjects :
        WOk(subjects.w, <<>>)))))))

\* <TurtleWriter as GraphWriter>::write
TurtleWriter_write(w, self, in_graph) ==
    Try(write_base(w, self), LAMBDA base :
    Try(Put(base.w, Chunk("\n", <<>>)), LAMBDA line :
    Try(write_prefixes(line.w, self, in_graph.mappings), LAMBDA prefixes :
    Try(Put(prefixes.w, Chunk("\n", <<>>)), LAMBDA line2 :
    Try(write_subjects(line2.w, self, Graph_subjects(in_graph), in_graph, <<>>, <<>>),
        LAMBDA subjects :
    Try(write_blanks(subjects.w, self,
                     retain(subjects.value.blanks_to_write, subjects.value.blanks_written),
                     in_graph), LAMBDA blanks :
        WOk(blanks.w, <<>>)))))))

\* TurtleOptions and its default; TurtleWriter::default, new, with_base
TurtleOptions(nest_blank_nodes, use_sparql_style) ==
    [nest_blank_nodes |-> nest_blank_nodes, use_sparql_style |-> use_sparql_style]
TurtleOptions_default == TurtleOptions(TRUE, FALSE)
TurtleWriter_default == [base |-> None, options |-> TurtleOptions_default]
TurtleWriter_new(options) == [base |-> None, options |-> options]
TurtleWriter_with_base(base, options) == [base |-> Some(base), options |-> options]

\* The inputs: IRIs of three namespaces, two of them with a prefix (one the
\* default prefix, one inside the other), and the base, which is one of the
\* namespaces that have a prefix.
InA(name) == <<"http://a/", name>>
InAX(name) == <<"http://a/", "x/", name>>
InB(name) == <<"http://b/", name>>
InC(name) == <<"http://c/", name>>
WriterBase == <<"http://a/">>
WriterMappings ==
    <<[prefix |-> "a", namespace |-> <<"http://a/">>],
      [prefix |-> "", namespace |-> <<"http://b/">>],
      [prefix |-> "ax", namespace |-> <<"http://a/", "x/">>]>>
Greeting == Literal_with_language(<<"h", "i">>, <<"e", "n">>)
BlankA == GraphBlank(<<"a">>)
BlankB == GraphBlank(<<"b">>)
GraphOf(sts_) == [statements |-> sts_, mappings |-> WriterMappings]

\* IRIs and literals only: two objects of a predicate, two predicates of a
\* subject, an IRI that no mapping compresses
PlainGraph ==
    GraphOf(<<Triple(GraphNamed(InA("s")), InA("p"), GraphNamed(InB("o"))),
              Triple(GraphNamed(InA("s")), InA("p"), GraphLiteral(Hello)),
              Triple(GraphNamed(InA("s")), InC("q"), GraphLiteral(Greeting)),
              Triple(GraphNamed(InC("t")), InB("p"), GraphNamed(InAX("o")))>>)
\* a blank node that is the object of one statement of an IRI subject
NestedGraph ==
    GraphOf(<<Triple(GraphNamed(InA("s")), InA("p"), BlankA),
              Triple(BlankA, InB("q"), GraphLiteral(Hello))>>)
\* a blank subject before the IRI subject it is an object of, and a blank
\* node under it
DeepGraph ==
    GraphOf(<<Triple(BlankA, InB("q"), BlankB),
              Triple(GraphNamed(InC("s")), InA("p"), BlankA),
              Triple(BlankB, InB("q"), GraphLiteral(Hello))>>)
\* a blank node that is the object of statements of two subjects
SharedGraph ==
    GraphOf(<<Triple(GraphNamed(InA("s")), InA("p"), BlankA),
              Triple(GraphNamed(InB("t")), InA("p"), BlankA),
              Triple(BlankA, InB("q"), GraphLiteral(Hello))>>)
\* a blank node that is an object of a blank subject
BlankUnderBlankGraph ==
    GraphOf(<<Triple(BlankA, InA("p"), BlankB),
              Triple(BlankB, InB("q"), GraphLiteral(Hello))>>)
\* two blank nodes in a cycle, and a blank node that is its own object
CycleGraph ==
    GraphOf(<<Triple(BlankA, InA("p"), BlankB),
              Triple(BlankB, InA("p"), BlankA)>>)
SelfGraph ==
    GraphOf(<<Triple(GraphNamed(InA("s")), InA("p"), BlankA),
              Triple(BlankA, InA("p"), BlankA)>>)
\* a blank subject that is nobody's object, after an IRI subject
LooseGraph ==
    GraphOf(<<Triple(BlankA, InA("p"), GraphNamed(InA("o"))),
              Triple(GraphNamed(InA("s")), InA("p"), GraphNamed(InC("o")))>>)
Graphs ==
    {PlainGraph, NestedGraph, DeepGraph, SharedGraph, BlankUnderBlankGraph,
     CycleGraph, SelfGraph, LooseGraph}

(***************************************************************************)
(* A reader of the Turtle text in the sink, chunk by chunk: the base and   *)
(* the prefixes declared, the subject and predicate of every block that is *)
(* open, what is expected next, the statements read so far.  A [ opens a   *)
(* block of a new blank node, whose label is a number of "g".              *)
(***************************************************************************)
NewReader ==
    [ok |-> TRUE, base |-> None, prefixes |-> <<>>, frames |-> <<>>,
     expect |-> "subject", statements |-> <<>>, fresh |-> 0]
Namespaces == {"http://a/", "http://b/", "http://c/"}
WriterLiterals == {Hello, Greeting}

\* The IRI an IRI reference stands for: itself when absolute, after the base
\* otherwise
Resolve(st, text) ==
    IF text # <<>> /\ text[1] \in Namespaces THEN Some(text)
    ELSE IF is_some(st.base) THEN Some(st.base[1] \o text)
    ELSE None
\* The IRI a prefixed name stands for
Expand(st, text) ==
    IF \E i \in 1..Len(st.prefixes) : st.prefixes[i].prefix = text[1]
    THEN Some(st.prefixes[CHOOSE i \in 1..Len(st.prefixes) :
                              st.prefixes[i].prefix = text[1]].namespace \o Tail(text))
    ELSE None
\* The literal a literal's text stands for
ReadLiteral(text) ==
    IF \E literal \in WriterLiterals : Literal_fmt(literal) = text
    THEN Some(CHOOSE literal \in WriterLiterals : Literal_fmt(literal) = text)
    ELSE None

Failed(st) == [st EXCEPT !.ok = FALSE]
Top(st) == st.frames[Len(st.frames)]
\* A term is read where a subject, a predicate or an object is expected.
ReadTerm(st, node) ==
    IF st.expect = "subject" /\ ~(node.t = "literal")
    THEN [st EXCEPT !.frames = Append(@, [subject |-> node, predicate |-> None]),
                    !.expect = "predicate"]
    ELSE IF st.expect = "predicate" /\ is_iri(node)
    THEN [st EXCEPT !.frames[Len(st.frames)].predicate = Some(node.name),
                    !.expect = "object"]
    ELSE IF st.expect = "object"
    THEN [st EXCEPT !.statements =
                        Append(@, Triple(Top(st).subject, Top(st).predicate[1], node)),
                    !.expect = "punctuation"]
    ELSE Failed(st)
ReadNamed(st, name) ==
    IF is_none(name) THEN Failed(st) ELSE ReadTerm(st, GraphNamed(name[1]))
\* [ : the block of a new blank node, which is the object read
ReadOpen(st) ==
    IF st.expect # "object" THEN Failed(st)
    ELSE [st EXCEPT !.statements =
                        Append(@, Triple(Top(st).subject, Top(st).predicate[1],
                                         GraphBlank([i \in 1..(st.fresh + 1) |-> "g"]))),
                    !.frames = Append(@, [subject |-> GraphBlank([i \in 1..(st.fresh + 1) |-> "g"]),
                                          predicate |-> None]),
                    !.fresh = @ + 1,
                    !.expect = "predicate"]
\* ] and . : the end of a block
ReadClose(st, depth) ==
    IF st.expect \in {"predicate", "punctuation"} /\ Len(st.frames) = depth
    THEN [st EXCEPT !.frames = SubSeq(@, 1, Len(@) - 1),
                    !.expect = IF Len(st.frames) = 1 THEN "subject" ELSE "punctuation"]
    ELSE [st EXCEPT !.ok = FALSE]

TurtleStep(st, chunk) ==
    IF chunk.kind \in {"@base <{}> .\n", "BASE <{}>\n"}
    THEN IF st.expect = "subject" THEN [st EXCEPT !.base = Some(chunk.arg)] ELSE Failed(st)
    ELSE IF chunk.kind \in {"@prefix {}: <{}> .\n", "PREFIX {}: <{}>\n"}
    THEN IF st.expect = "subject"
         THEN [st EXCEPT !.prefixes =
                   Append(@, [prefix |-> chunk.arg[1], namespace |-> Tail(chunk.arg)])]
         ELSE Failed(st)
    ELSE IF chunk.kind \in {"\n", "{}"} THEN st
    ELSE IF chunk.kind = "_:{} " \/ chunk.kind = "_:{}"
    THEN ReadTerm(st, GraphBlank(chunk.arg))
    ELSE IF chunk.kind = "<{}> " THEN ReadNamed(st, Resolve(st, chunk.arg))
    ELSE IF chunk.kind = "{}:{} " THEN ReadNamed(st, Expand(st, chunk.arg))
    ELSE IF chunk.kind = "{} "
    THEN IF is_none(ReadLiteral(chunk.arg)) THEN Failed(st)
         ELSE ReadTerm(st, GraphLiteral(ReadLiteral(chunk.arg)[1]))
    ELSE IF chunk.kind = "[\n{}" THEN ReadOpen(st)
    ELSE IF chunk.kind = "{}]"
    THEN IF Len(st.frames) > 1 THEN ReadClose(st, Len(st.frames)) ELSE Failed(st)
    ELSE IF chunk.kind = ".\n" THEN ReadClose(st, 1)
    ELSE IF chunk.kind = ",\n"
    THEN IF st.expect = "punctuation" THEN [st EXCEPT !.expect = "object"] ELSE Failed(st)
    ELSE IF chunk.kind = ";\n{}"
    THEN IF st.expect = "punctuation" THEN [st EXCEPT !.expect = "predicate"] ELSE Failed(st)
    ELSE Failed(st)

\* The whole text is read; it has to end between two blocks.
RECURSIVE TurtleRead(_, _)
TurtleRead(st, chunks) ==
    IF ~st.ok THEN st
    ELSE IF chunks = <<>> THEN [st EXCEPT !.ok = (st.expect = "subject")]
    ELSE TurtleRead(TurtleStep(st, Head(chunks)), Tail(chunks))

NewSink(fail_at) ==
    [out |-> <<>>, attempts |-> 0, fail_at |-> fail_at, blocks |-> <<>>, iris |-> {}]

WriterInit ==
    /\ writer = None
    /\ sink = NewSink(0)
    /\ written = None
    /\ wresult = None
    /\ reread = None

\* TurtleWriter::default()
WriterDefault ==
    /\ is_none(writer)
    /\ writer' = Some(TurtleWriter_default)
    /\ UNCHANGED <<sink, written, wresult, reread>>
    /\ UNCHANGED <<literalVars, resourceVars, parserVars, predicateVars, skosVars>>

\* TurtleWriter::new(options)
WriterNew ==
    /\ is_none(writer)
    /\ \E nest \in BOOLEAN, sparql \in BOOLEAN :
            writer' = Some(TurtleWriter_new(TurtleOptions(nest, sparql)))
    /\ UNCHANGED <<sink, written, wresult, reread>>
    /\ UNCHANGED <<literalVars, resourceVars, parserVars, predicateVars, skosVars>>

\* TurtleWriter::with_base(base, options)
WriterWithBase ==
    /\ is_none(writer)
    /\ \E nest \in BOOLEAN, sparql \in BOOLEAN :
            writer' = Some(TurtleWriter_with_base(WriterBase, TurtleOptions(nest, sparql)))
    /\ UNCHANGED <<sink, written, wresult, reread>>
    /\ UNCHANGED <<literalVars, resourceVars, parserVars, predicateVars, skosVars>>

\* writer.write(w, graph), on a sink that fails one of its first writes or
\* none
Write ==
    /\ is_some(writer)
    /\ is_none(wresult)
    /\ \E in_graph \in Graphs, fail_at \in 0..MaxFail :
            /\ written' = Some(in_graph)
            /\ sink' = TurtleWriter_write(NewSink(fail_at), writer[1], in_graph).w
            /\ wresult' = Some(TurtleWriter_write(NewSink(fail_at), writer[1], in_graph).status)
    /\ UNCHANGED <<writer, reread>>
    /\ UNCHANGED <<literalVars, resourceVars, parserVars, predicateVars, skosVars>>

\* The text of a completed write is read back.
ReadBack ==
    /\ wresult = Some("Ok")
    /\ is_none(reread)
    /\ reread' = Some(TurtleRead(NewReader, sink.out))
    /\ UNCHANGED <<writer, sink, written, wresult>>
    /\ UNCHANGED <<literalVars, resourceVars, parserVars, predicateVars, skosVars>>

WriterNext ==
    \/ WriterDefault
    \/ WriterNew
    \/ WriterWithBase
    \/ Write
    \/ ReadBack

(***************************************************************************)
(* The SKOS model (rdftk_skos, model.rs): Scheme with its concepts and top *)
(* concepts, and the preferred label of a Labeled object.  The map of the  *)
(* concepts is the sequence of its values in the order its iterator visits *)
(* them, one concept per IRI.                                              *)
(***************************************************************************)
SkosNamespace == "http://www.w3.org/2004/02/skos/core#"
ns_concept_scheme == SkosNamespace \o "ConceptScheme"
ns_concept == SkosNamespace \o "Concept"
ns_top_concept_of == SkosNamespace \o "topConceptOf"
ns_has_top_concept == SkosNamespace \o "hasTopConcept"
ns_in_scheme == SkosNamespace \o "inScheme"
ns_pref_label == SkosNamespace \o "prefLabel"
ns_alt_label == SkosNamespace \o "altLabel"

\* LiteralProperty::new, preferred_label, preferred_label_with,
\* alternative_label
LiteralProperty_new(predicate, value) == [predicate |-> predicate, value |-> value]
LiteralProperty_preferred_label(text) ==
    LiteralProperty_new(ns_pref_label, Literal_from_str(text))
LiteralProperty_preferred_label_with(text, language) ==
    LiteralProperty_new(ns_pref_label, Literal_with_language(text, language))
LiteralProperty_alternative_label(text) ==
    LiteralProperty_new(ns_alt_label, Literal_from_str(text))

\* impl ToStatement for LiteralProperty
LiteralProperty_to_statement(self, subject) ==
    Statement_new(subject, self.predicate, ObjectNode_literal(self.value))

\* Concept::new, Concept::new_with_label
Concept_new(uri) == [uri |-> uri, relations |-> <<>>, properties |-> <<>>]
Concept_new_with_label(uri, text, language) ==
    [Concept_new(uri) EXCEPT !.properties =
        <<IF is_none(language) THEN LiteralProperty_preferred_label(text)
          ELSE LiteralProperty_preferred_label_with(text, language[1])>>]

\* impl ToStatements for Concept, for a concept without relations
Concept_to_statements(self) ==
    <<Statement_new(SubjectNode_named(self.uri), rdf_a_type, SubjectNode_named(ns_concept))>>
        \o [i \in 1..Len(self.properties) |->
               LiteralProperty_to_statement(self.properties[i], SubjectNode_named(self.uri))]

\* Scheme::new
Scheme_new(uri) == [uri |-> uri, concepts |-> <<>>, top_concepts |-> {}]

\* self.concepts.insert(concept): the concept takes the place of the one of
\* its IRI, or a place of its own
concepts_insert(concepts, concept) ==
    IF \E i \in 1..Len(concepts) : concepts[i].uri = concept.uri
    THEN [i \in 1..Len(concepts) |->
             IF concepts[i].uri = concept.uri THEN concept ELSE concepts[i]]
    ELSE Append(concepts, concept)

\* Scheme::add_concept
Scheme_add_concept(self, concept) ==
    [self EXCEPT !.concepts = concepts_insert(@, concept)]

\* A plausible slip in add_top_concept: the IRI is recorded and the concept
\* is not kept.
Scheme_add_top_concept_OnlyMarks(self, concept) ==
    [self EXCEPT !.top_concepts = @ \cup {concept.uri}]

\* Scheme::add_top_concept
Scheme_add_top_concept(self, concept) ==
    [self EXCEPT !.concepts = concepts_insert(@, concept),
                 !.top_concepts = @ \cup {concept.uri}]

\* The statements of the loop over the concepts of to_statements
RECURSIVE SchemeConceptStatements(_, _)
SchemeConceptStatements(self, members) ==
    IF members = <<>> THEN <<>>
    ELSE Concept_to_statements(Head(members))
         \o (IF Head(members).uri \in self.top_concepts
             THEN <<Statement_new(SubjectNode_named(Head(members).uri), ns_top_concept_of,
                                  SubjectNode_named(self.uri))>>
             ELSE <<>>)
         \o <<Statement_new(SubjectNode_named(Head(members).uri), ns_in_scheme,
                            SubjectNode_named(self.uri))>>
         \o SchemeConceptStatements(self, Tail(members))

\* impl ToStatements for Scheme, for a scheme without collections and
\* properties; tops is the top concepts in the order the set's iterator
\* visits them
Scheme_to_statements(self, tops) ==
    <<Statement_new(SubjectNode_named(self.uri), rdf_a_type,
                    SubjectNode_named(ns_concept_scheme))>>
        \o SchemeConceptStatements(self, self.concepts)
        \o [i \in 1..Len(tops) |->
               Statement_new(SubjectNode_named(self.uri), ns_has_top_concept,
                             SubjectNode_named(tops[i]))]

\* The preferred labels of the properties, as the HashMap preferred_label
\* collects them: the last label of a language is the one of the language.
PreferredOf(properties) ==
    SelectSeq(properties, LAMBDA property : property.predicate = ns_pref_label)
PreferredKeys(properties) ==
    {PreferredOf(properties)[i].value.language : i \in 1..Len(PreferredOf(properties))}
PreferredGet(properties, key) ==
    LET latest == CHOOSE i \in 1..Len(PreferredOf(properties)) :
                    /\ PreferredOf(properties)[i].value.language = key
                    /\ \A j \in (i + 1)..Len(PreferredOf(properties)) :
                           PreferredOf(properties)[j].value.language # key
    IN  PreferredOf(properties)[latest].value.lexical_form

\* Labeled::preferred_label; first is the key preferred.keys().next() gives,
\* none when the map is empty
preferred_label(properties, for_language, first) ==
    IF Some(for_language) \in PreferredKeys(properties)
    THEN Ok(Some(PreferredGet(properties, Some(for_language))))
    ELSE IF None \in PreferredKeys(properties)
    THEN Ok(Some(PreferredGet(properties, None)))
    ELSE IF is_none(first) THEN Panicked
    ELSE Ok(Some(PreferredGet(properties, first[1])))

\* The inputs: concepts of three IRIs, with or without a label; texts and
\* languages of labels.
SchemeUri == "http://example.org/scheme"
ConceptUris == {"http://example.org/c1", "http://example.org/c2", "http://example.org/c3"}
LabelTexts == {<<"a">>, <<"b">>}
LabelLanguages == {<<"e", "n">>, <<"d", "e">>}
Concepts ==
    {Concept_new(uri) : uri \in ConceptUris}
        \cup {Concept_new_with_label(uri, <<"a">>, None) : uri \in ConceptUris}

\* The orders in which the iterator of a set may visit its elements
Orders(set) ==
    {order \in [1..Cardinality(set) -> set] :
        \A i \in 1..Cardinality(set), j \in 1..Cardinality(set) :
            order[i] = order[j] => i = j}

SkosInit ==
    /\ scheme = Scheme_new(SchemeUri)
    /\ statements = None
    /\ labeled = <<>>
    /\ asked = None
    /\ skosCalls = 0

\* Scheme::add_concept
AddConcept ==
    /\ is_none(statements)
    /\ skosCalls < MaxCalls + 1
    /\ \E concept \in Concepts : scheme' = Scheme_add_concept(scheme, concept)
    /\ skosCalls' = skosCalls + 1
    /\ UNCHANGED <<statements, labeled, asked>>
    /\ UNCHANGED <<literalVars, resourceVars, parserVars, predicateVars, writerVars>>

\* Scheme::add_top_concept
AddTopConcept ==
    /\ is_none(statements)
    /\ skosCalls < MaxCalls + 1
    /\ \E concept \in Concepts : scheme' = Scheme_add_top_concept(scheme, concept)
    /\ skosCalls' = skosCalls + 1
    /\ UNCHANGED <<statements, labeled, asked>>
    /\ UNCHANGED <<literalVars, resourceVars, parserVars, predicateVars, writerVars>>

\* scheme.to_statements()
SchemeToStatements ==
    /\ is_none(statements)
    /\ \E tops \in Orders(scheme.top_concepts) :
            statements' = Some(Scheme_to_statements(scheme, tops))
    /\ UNCHANGED <<scheme, labeled, asked, skosCalls>>
    /\ UNCHANGED <<literalVars, resourceVars, parserVars, predicateVars, writerVars>>

\* A property is pushed onto the properties of the Labeled object.
Labelled(property) ==
    /\ is_none(asked)
    /\ skosCalls < MaxCalls + 1
    /\ labeled' = Append(labeled, property)
    /\ skosCalls' = skosCalls + 1
    /\ UNCHANGED <<scheme, statements, asked>>

\* Labeled::add_preferred_label, add_preferred_label_with,
\* add_alternative_label
AddPreferredLabel ==
    /\ \E text \in LabelTexts : Labelled(LiteralProperty_preferred_label(text))
    /\ UNCHANGED <<literalVars, resourceVars, parserVars, predicateVars, writerVars>>
AddPreferredLabelWith ==
    /\ \E text \in LabelTexts, language \in LabelLanguages :
            Labelled(LiteralProperty_preferred_label_with(text, language))
    /\ UNCHANGED <<literalVars, resourceVars, parserVars, predicateVars, writerVars>>
AddAlternativeLabel ==
    /\ \E text \in LabelTexts : Labelled(LiteralProperty_alternative_label(text))
    /\ UNCHANGED <<literalVars, resourceVars, parserVars, predicateVars, writerVars>>

\* Labeled::preferred_label
PreferredLabel ==
    /\ is_none(asked)
    /\ \E for_language \in LabelLanguages :
        \E first \in IF PreferredKeys(labeled) = {} THEN {None}
                     ELSE {Some(key) : key \in PreferredKeys(labeled)} :
            asked' = Some([for_language |-> for_language,
                           returned |-> preferred_label(labeled, for_language, first)])
    /\ UNCHANGED <<scheme, statements, labeled, skosCalls>>
    /\ UNCHANGED <<literalVars, resourceVars, parserVars, predicateVars, writerVars>>

SkosNext ==
    \/ AddConcept
    \/ AddTopConcept
    \/ SchemeToStatements
    \/ AddPreferredLabel
    \/ AddPreferredLabelWith
    \/ AddAlternativeLabel
    \/ PreferredLabel

Init ==
    LiteralInit /\ ResourceInit /\ ParserInit /\ PredicateInit /\ WriterInit /\ SkosInit

Next == LiteralNext \/ ResourceNext \/ ParserNext \/ PredicateNext \/ WriterNext \/ SkosNext

LiteralSpec == Init /\ [][LiteralNext]_vars
ResourceSpec == Init /\ [][ResourceNext]_vars
ParserSpec == Init /\ [][ParserNext]_vars
PredicateSpec == Init /\ [][PredicateNext]_vars
WriterSpec == Init /\ [][WriterNext]_vars
SkosSpec == Init /\ [][SkosNext]_vars
Spec == Init /\ [][Next]_vars

(***************************************************************************)
(* Properties of Literal and DataType, checked under LiteralSpec.          *)
(***************************************************************************)

\* The conversions from native values, and the data type each is to set.
ConversionVariant(op) ==
    CASE op = "bool" -> "Boolean"
      [] op = "f32" -> "Float"
      [] op = "f64" -> "Double"
      [] op = "i64" -> "Long"
      [] op = "i32" -> "Int"
      [] op = "i16" -> "Short"
      [] op = "i8" -> "Byte"
      [] op = "u64" -> "UnsignedLong"
      [] op = "u32" -> "UnsignedInt"
      [] op = "u16" -> "UnsignedShort"
      [] op = "u8" -> "UnsignedByte"
      [] op = "String" -> "String"
      [] op = "&str" -> "String"
      [] op = "IRIRef" -> "IRI"
      [] op = "QName" -> "QName"
      [] op = "Duration" -> "Duration"

Conversions ==
    {"bool", "f32", "f64", "i64", "i32", "i16", "i8", "u64", "u32", "u16", "u8",
     "String", "&str", "IRIRef", "QName", "Duration"}

\* The XSD IRI named after a variant, as the documentation of the enum gives it.
XsdNamespace == "http://www.w3.org/2001/XMLSchema#"
XsdIriOf(variant) ==
    XsdNamespace \o
        (CASE variant = "String" -> "string"
           [] variant = "QName" -> "QName"
           [] variant = "IRI" -> "anyURI"
           [] variant = "Boolean" -> "boolean"
           [] variant = "Float" -> "float"
           [] variant = "Double" -> "double"
           [] variant = "Long" -> "long"
           [] variant = "Int" -> "int"
           [] variant = "Short" -> "short"
           [] variant = "Byte" -> "byte"
           [] variant = "UnsignedLong" -> "unsignedLong"
           [] variant = "UnsignedInt" -> "unsignedInt"
           [] variant = "UnsignedShort" -> "unsignedShort"
           [] variant = "UnsignedByte" -> "unsignedByte"
           [] variant = "Duration" -> "duration")

\* C1: a Literal any constructor or conversion returns never has both a data
\* type and a language, and no operation on a Literal that exists (to_string,
\* data_type().as_iri()) changes the Literal.
C1_TypeXorLanguage ==
    /\ [](is_some(lit) => ~(is_some(lit[1].data_type) /\ is_some(lit[1].language)))
    /\ [][is_some(lit) => lit' = lit]_vars

\* C1 witness: a language-tagged literal has been constructed and displayed.
C1_Witness ==
    /\ is_some(lit)
    /\ call.op = "with_language"
    /\ is_some(lit[1].language)
    /\ is_some(shown)

\* C9: every conversion from a native value sets the data type matching the
\* native type and no language; as_iri answers the XSD IRI named after the
\* variant of a built-in data type and the wrapped IRI for Other; true is
\* displayed with xsd:boolean and 1u64 with xsd:unsignedLong.
C9_ConversionsSetMatchingType ==
    is_some(lit) =>
        /\ call.op \in Conversions =>
            /\ lit[1].data_type = Some(DT(ConversionVariant(call.op)))
            /\ lit[1].language = None
            /\ is_some(iri) => iri[1] = XsdIriOf(ConversionVariant(call.op))
        /\ (call.op = "with_type" /\ is_some(iri)) =>
            iri[1] = IF call.data_type[1].variant = "Other"
                     THEN call.data_type[1].iri
                     ELSE XsdIriOf(call.data_type[1].variant)
        /\ (call.op = "bool" /\ lit[1].lexical_form = <<"t", "r", "u", "e">>
                /\ is_some(shown)) =>
            shown[1] = <<Quote, "t", "r", "u", "e", Quote, "^", "^", "<",
                         "http://www.w3.org/2001/XMLSchema#boolean", ">">>
        /\ (call.op = "u64" /\ lit[1].lexical_form = <<"1">> /\ is_some(shown)) =>
            shown[1] = <<Quote, "1", Quote, "^", "^", "<",
                         "http://www.w3.org/2001/XMLSchema#unsignedLong", ">">>

\* C9 witness: 1u64 has been converted, displayed and its data type's IRI taken.
C9_Witness ==
    /\ is_some(lit)
    /\ call.op = "u64"
    /\ lit[1].lexical_form = <<"1">>
    /\ is_some(shown)
    /\ is_some(iri)

\* C10: to_string() is the lexical form in quotes, followed by ^^<iri> of the
\* data type when one is set, by @ and the lower-cased language when one is
\* set, and by nothing otherwise; the language stored is the one given.
C10_DisplayForm ==
    is_some(lit) =>
        /\ call.op = "with_language" => lit[1].language = call.language
        /\ is_some(shown) =>
            shown[1] =
                <<Quote>> \o lit[1].lexical_form \o <<Quote>>
                    \o (IF is_some(lit[1].data_type)
                        THEN <<"^", "^", "<", as_iri(lit[1].data_type[1]), ">">>
                        ELSE IF is_some(lit[1].language)
                        THEN <<"@">> \o to_lowercase(lit[1].language[1])
                        ELSE <<>>)

\* C10 witness: a literal with an upper-case language tag has been displayed.
C10_Witness ==
    /\ is_some(lit)
    /\ call.language = Some(<<"E", "N">>)
    /\ is_some(shown)
    /\ shown[1] = <<Quote>> \o lit[1].lexical_form \o <<Quote, "@", "e", "n">>

(***************************************************************************)
(* Properties of the Resource builder and of flatten, checked under        *)
(* ResourceSpec.  The operators below describe a resource tree and a       *)
(* statement list; none of them uses flatten.                              *)
(***************************************************************************)
RECURSIVE SumOver(_, _)
SumOver(f, n) == IF n = 0 THEN 0 ELSE f[n] + SumOver(f, n - 1)

RECURSIVE StatementCount(_)
RECURSIVE ObjectCount(_)

\* The number of statements claimed for one object of a predicate.
ObjectCount(object) ==
    CASE object.variant = "Literal" -> 1
      [] object.variant = "Resource" -> 1 + StatementCount(object.resource[1])
      [] object.variant = "Literals" -> 2 + Len(object.literals[1].values)
      [] object.variant = "Resources" ->
            LET values == object.resources[1].values
            IN  2 + Len(values)
                  + SumOver([i \in 1..Len(values) |-> StatementCount(values[i])],
                            Len(values))

ObjectsCount(objects) ==
    SumOver([j \in 1..Len(objects) |-> ObjectCount(objects[j])], Len(objects))

\* The number of statements claimed for a resource tree.
StatementCount(resource) ==
    SumOver([i \in 1..Len(resource.predicates) |->
                ObjectsCount(resource.predicates[i].values)],
            Len(resource.predicates))

Keys(resource) == {resource.predicates[i].key : i \in 1..Len(resource.predicates)}

ValuesOf(resource, key) ==
    IF contains_key(resource.predicates, key)
    THEN resource.predicates[IndexOf(resource.predicates, key)].values
    ELSE <<>>

\* The objects of a resource, of all its predicates.
ObjectsOf(resource) ==
    UNION {{resource.predicates[i].values[j] :
                j \in 1..Len(resource.predicates[i].values)} :
           i \in 1..Len(resource.predicates)}
StatementSet(s) == {s[k] : k \in 1..Len(s)}
PredicateSet(s) == {s[k].predicate : k \in 1..Len(s)}

\* The documented examples: the test test_wikipedia_example_01 and the
\* example of the module documentation, built with Resource::insert.
ContactMe == "http://www.w3.org/People/EM/contact#me"
ContactFullName == "http://www.w3.org/2000/10/swap/pim/contact#fullName"
ContactMailbox == "http://www.w3.org/2000/10/swap/pim/contact#mailbox"
ContactPersonalTitle == "http://www.w3.org/2000/10/swap/pim/contact#personalTitle"
ContactPerson == "http://www.w3.org/2000/10/swap/pim/contact#Person"
WikipediaExample01(slot) ==
    Resource_insert(
      Resource_insert(
        Resource_insert(
          Resource_insert(Resource_named(ContactMe), ContactFullName,
                          ResourceObject_Literal(Literal_from_str(<<"E", "M">>)), 0),
          ContactMailbox,
          ResourceObject_Resource(Resource_named("mailto:e.miller123(at)example")), slot),
        ContactPersonalTitle, ResourceObject_Literal(Literal_from_str(<<"D", "r">>)), slot),
      rdf_a_type, ResourceObject_Resource(Resource_named(ContactPerson)), slot)

DcPublisher == "http://purl.org/dc/elements/1.1/publisher"
DcTitle == "http://purl.org/dc/elements/1.1/title"
DcDescription == "http://purl.org/dc/elements/1.1/description"
FoafPerson == "http://xmlns.com/foaf/0.1/Person"
FoafName == "http://xmlns.com/foaf/0.1/name"
TonyBenn(slot) ==
    Resource_insert(
      Resource_insert(
        Resource_insert(Resource_named("http://en.wikipedia.org/wiki/Tony_Benn"),
                        DcPublisher, ResourceObject_Literal(Literal_new(<<"W">>)), 0),
        DcTitle, ResourceObject_Literal(Literal_new(<<"T", "B">>)), slot),
      DcDescription,
      ResourceObject_Resource(
        Resource_insert(
          Resource_insert(Resource_blank(1), rdf_a_type,
                          ResourceObject_Resource(Resource_named(FoafPerson)), 0),
          FoafName, ResourceObject_Literal(Literal_new(<<"T", "B">>)), slot)),
      slot)

\* C2: the flattened list holds 1 statement for a literal object, 1 plus those
\* of the nested resource for a resource object, 2 plus the members plus those
\* of the resource members for a container, summed over the predicates; a named
\* resource with one literal and one instance_of gives its two statements; the
\* documented examples give 4 and 5 statements.
C2_StatementCount ==
    is_some(sts) =>
        /\ Len(sts[1]) = StatementCount(res[1])
        /\ (/\ res[1].subject = SubjectNode_named(U)
            /\ Keys(res[1]) = {P1, rdf_a_type}
            /\ ValuesOf(res[1], P1) = <<ResourceObject_Literal(Hello)>>
            /\ ValuesOf(res[1], rdf_a_type)
                   = <<ResourceObject_Resource(Resource_named(U2))>>) =>
            /\ Len(sts[1]) = 2
            /\ StatementSet(sts[1]) =
                   {Statement_new(SubjectNode_named(U), P1, ObjectNode_literal(Hello)),
                    Statement_new(SubjectNode_named(U), rdf_a_type, SubjectNode_named(U2))}
        /\ \A slot \in {0, 1} :
            /\ Len(Resource_into(WikipediaExample01(slot), nextBlank).sts) = 4
            /\ Len(Resource_into(TonyBenn(slot), nextBlank).sts) = 5

\* C2 witness: the example of one literal and one instance_of has been flattened.
C2_Witness ==
    /\ is_some(sts)
    /\ res[1].subject = SubjectNode_named(U)
    /\ ValuesOf(res[1], P1) = <<ResourceObject_Literal(Hello)>>
    /\ ValuesOf(res[1], rdf_a_type) = <<ResourceObject_Resource(Resource_named(U2))>>
    /\ Len(sts[1]) = 2

\* The node a member of a container is linked by.
MemberNode(object, i) ==
    IF object.variant = "Resources" THEN object.resources[1].values[i].subject
    ELSE ObjectNode_literal(object.literals[1].values[i])

ContainerOf(object) ==
    IF object.variant = "Resources" THEN object.resources[1] ELSE object.literals[1]

\* The place in the flattened list of the first statement of object j of the
\* i-th predicate of a resource, by the count C2 gives.
SegmentStart(resource, i, j) ==
    1 + SumOver([i2 \in 1..(i - 1) |-> ObjectsCount(resource.predicates[i2].values)], i - 1)
      + SumOver([j2 \in 1..(j - 1) |-> ObjectCount(resource.predicates[i].values[j2])], j - 1)

\* The statements of node as subject among those of a segment, in order.
StatementsOf(node, segment) == SelectSeq(segment, LAMBDA st : st.subject = node)

\* The container that is object j of the i-th predicate is encoded in the list
\* s as the claim C3 has it: link, class, and members numbered from `first`.
ContainerEncoded(resource, s, i, j, first) ==
    LET object == resource.predicates[i].values[j]
        c == ContainerOf(object)
        a == SegmentStart(resource, i, j)
        n == ObjectCount(object)
        B == s[a].object
        members == StatementsOf(B, SubSeq(s, a + 2, a + n - 1))
    IN  /\ a + n - 1 <= Len(s)
        /\ s[a] = Statement_new(resource.subject, resource.predicates[i].key, B)
        /\ is_blank(B)
        /\ s[a + 1] = Statement_new(B, rdf_a_type, SubjectNode_named(ContainerClass(c.kind)))
        /\ Len(members) = Len(c.values)
        /\ \A m \in 1..Len(members) :
            /\ members[m].predicate = rdf_member(first + m - 1)
            /\ members[m].object = MemberNode(object, m)
        /\ object.variant = "Literals" => n = 2 + Len(c.values)

ContainersEncoded(first) ==
    is_some(sts) =>
        \A i \in 1..Len(res[1].predicates) :
            \A j \in 1..Len(res[1].predicates[i].values) :
                is_container(res[1].predicates[i].values[j]) =>
                    ContainerEncoded(res[1], sts[1], i, j, first)

\* C3: a container of n members under predicate P of subject S flattens to
\* (S, P, B), (B, rdf:type, class of the kind) and one membership statement per
\* member, with the predicates rdf:_1 .. rdf:_n in member order, never rdf:_0.
C3_MembersNumberedFromOne == ContainersEncoded(1)

\* What flatten does instead: the members are numbered rdf:_0 .. rdf:_(n-1).
C3_MembersNumberedFromZero == ContainersEncoded(0)

\* The membership properties, and the number of one.
MemberNumbers == 0..(MaxMembers + 1)
IsMembership(predicate) == \E k \in MemberNumbers : predicate = rdf_member(k)
MemberNumber(predicate) == CHOOSE k \in MemberNumbers : predicate = rdf_member(k)

RECURSIVE EntriesOrdered(_, _, _)
RECURSIVE ObjectsOrdered(_, _, _, _)
RECURSIVE ObjectOrdered(_, _, _, _)
RECURSIVE MembersOrdered(_, _, _, _, _)

\* The segment holds the members from m on of the container object whose node
\* is B: a resource member's own statements directly before the statement of
\* its membership, the memberships in member order, numbered upwards.
MembersOrdered(B, object, m, segment, above) ==
    IF m > Len(ContainerOf(object).values) THEN segment = <<>>
    ELSE LET own == IF object.variant = "Resources"
                    THEN StatementCount(object.resources[1].values[m])
                    ELSE 0
         IN  /\ own + 1 <= Len(segment)
             /\ segment[own + 1].subject = B
             /\ segment[own + 1].object = MemberNode(object, m)
             /\ IsMembership(segment[own + 1].predicate)
             /\ MemberNumber(segment[own + 1].predicate) > above
             /\ object.variant = "Resources" =>
                    EntriesOrdered(object.resources[1].values[m].subject,
                                   object.resources[1].values[m].predicates,
                                   SubSeq(segment, 1, own))
             /\ MembersOrdered(B, object, m + 1,
                               SubSeq(segment, own + 2, Len(segment)),
                               MemberNumber(segment[own + 1].predicate))

\* The segment holds the statements of one object in the order claimed: those
\* of a plain nested resource before the statement linking it; for a container
\* the link, at once the class, then the members.
ObjectOrdered(subject, predicate, object, segment) ==
    CASE object.variant = "Literal" ->
            segment = <<Statement_new(subject, predicate,
                                      ObjectNode_literal(object.literal[1]))>>
      [] object.variant = "Resource" ->
            /\ Len(segment) >= 1
            /\ segment[Len(segment)] =
                   Statement_new(subject, predicate, object.resource[1].subject)
            /\ EntriesOrdered(object.resource[1].subject,
                              object.resource[1].predicates,
                              SubSeq(segment, 1, Len(segment) - 1))
      [] OTHER ->
            /\ Len(segment) >= 2
            /\ segment[1].subject = subject
            /\ segment[1].predicate = predicate
            /\ is_blank(segment[1].object)
            /\ segment[2] =
                   Statement_new(segment[1].object, rdf_a_type,
                                 SubjectNode_named(ContainerClass(ContainerOf(object).kind)))
            /\ MembersOrdered(segment[1].object, object, 1,
                              SubSeq(segment, 3, Len(segment)), -1)

ObjectsOrdered(subject, predicate, objects, segment) ==
    IF objects = <<>> THEN segment = <<>>
    ELSE LET n == ObjectCount(Head(objects))
         IN  /\ n <= Len(segment)
             /\ ObjectOrdered(subject, predicate, Head(objects), SubSeq(segment, 1, n))
             /\ ObjectsOrdered(subject, predicate, Tail(objects),
                               SubSeq(segment, n + 1, Len(segment)))

EntriesOrdered(subject, entries, segment) ==
    IF entries = <<>> THEN segment = <<>>
    ELSE LET n == ObjectsCount(Head(entries).values)
         IN  /\ n <= Len(segment)
             /\ ObjectsOrdered(subject, Head(entries).key, Head(entries).values,
                               SubSeq(segment, 1, n))
             /\ EntriesOrdered(subject, Tail(entries),
                               SubSeq(segment, n + 1, Len(segment)))

\* C4: in the flattened list every statement of a plain nested resource comes
\* before the statement that links the parent to it; for a container the link
\* comes first, at once followed by the class statement, followed by the
\* membership statements in member order, each resource member's own
\* statements directly before its membership statement.
C4_StatementOrder ==
    is_some(sts) => EntriesOrdered(res[1].subject, res[1].predicates, sts[1])

\* C4 witness: a resource holding a plain nested resource with statements of its
\* own and a container of resources has been flattened.
C4_Witness ==
    /\ is_some(sts)
    /\ \E o \in ObjectsOf(res[1]) :
        o.variant = "Resource" /\ o.resource[1].predicates # <<>>
    /\ \E o \in ObjectsOf(res[1]) :
        o.variant = "Resources" /\ Len(o.resources[1].values) = MaxMembers

\* C5: a resource with zero predicates flattens to zero statements; a resource
\* a builder method has been called on flattens to a non-empty list; no
\* predicate entry of a built resource has an empty object list; a nested
\* resource with zero predicates is the subject of no statement.
C5_EmptyAndNonEmpty ==
    /\ is_some(res) =>
        /\ calls >= 1 <=> res[1].predicates # <<>>
        /\ \A i \in 1..Len(res[1].predicates) : res[1].predicates[i].values # <<>>
    /\ is_some(sts) =>
        /\ res[1].predicates = <<>> => sts[1] = <<>>
        /\ calls >= 1 => sts[1] # <<>>
        /\ \A k \in 1..Len(sts[1]) : sts[1][k].subject # SubjectNode_named(U2)

\* C5 witness: a resource with zero predicates has been flattened.
C5_Witness ==
    /\ is_some(sts)
    /\ res[1].predicates = <<>>
    /\ is_blank(res[1].subject)
    /\ sts[1] = <<>>

\* C6: a builder call appends its value to the object list of its predicate,
\* leaves the values the list held in place, leaves the list of every other
\* predicate and the subject as they were, and adds no other predicate; a
\* resource starts with no predicate, and flattening leaves it as it is.
C6_BuilderAdditive ==
    /\ [](is_some(res) /\ calls = 0 => res[1].predicates = <<>>)
    /\ [][/\ calls' = calls + 1 =>
                LET predicate == last'.predicate[1]
                    object == last'.object[1]
                IN  /\ ValuesOf(res'[1], predicate)
                           = Append(ValuesOf(res[1], predicate), object)
                    /\ \A other \in Keys(res[1]) \ {predicate} :
                           ValuesOf(res'[1], other) = ValuesOf(res[1], other)
                    /\ Keys(res'[1]) = Keys(res[1]) \cup {predicate}
                    /\ Len(res'[1].predicates) = Cardinality(Keys(res'[1]))
                    /\ res'[1].subject = res[1].subject
          /\ (is_some(res) /\ calls' = calls) => res' = res]_vars

\* C6 witness: a predicate method was called for a predicate already present,
\* and the list holds both values, the earlier one first.
C6_Witness ==
    /\ is_some(res)
    /\ calls = 2
    /\ Len(ValuesOf(res[1], P1)) = 2
    /\ ValuesOf(res[1], P1)[1] # ValuesOf(res[1], P1)[2]
    /\ ValuesOf(res[1], P1)[2] = last.object[1]

\* A statement list with the labels of the generated blank nodes erased.
EraseLabel(node) == IF is_generated(node) THEN [node EXCEPT !.n = 1] ELSE node
EraseLabels(s) ==
    [k \in 1..Len(s) |->
        Statement_new(EraseLabel(s[k].subject), s[k].predicate, EraseLabel(s[k].object))]
Occurrences(s, x) == Cardinality({k \in 1..Len(s) : s[k] = x})
SameStatements(s, t) ==
    \A x \in StatementSet(s) \cup StatementSet(t) : Occurrences(s, x) = Occurrences(t, x)

\* The class statements of the containers, in list order.
ContainerClasses == {rdf_alt, rdf_bag, rdf_seq, KindIri}
IsClassStatement(s, k) ==
    /\ k > 1
    /\ s[k].predicate = rdf_a_type
    /\ s[k].object \in {SubjectNode_named(c) : c \in ContainerClasses}
    /\ s[k - 1].object = s[k].subject
ClassStatements(s) ==
    LET picked == SelectSeq([k \in 1..Len(s) |-> k], LAMBDA k : IsClassStatement(s, k))
    IN  [i \in 1..Len(picked) |-> s[picked[i]]]

RECURSIVE ContainerCount(_)
RECURSIVE CallerBlanks(_)

\* The container objects of a resource tree, at any depth.
ObjectContainerCount(object) ==
    CASE object.variant = "Literal" -> 0
      [] object.variant = "Literals" -> 1
      [] object.variant = "Resource" -> ContainerCount(object.resource[1])
      [] object.variant = "Resources" ->
            LET values == object.resources[1].values
            IN  1 + SumOver([i \in 1..Len(values) |-> ContainerCount(values[i])],
                            Len(values))
ContainerCount(resource) ==
    SumOver([i \in 1..Len(resource.predicates) |->
                SumOver([j \in 1..Len(resource.predicates[i].values) |->
                            ObjectContainerCount(resource.predicates[i].values[j])],
                        Len(resource.predicates[i].values))],
            Len(resource.predicates))

\* The blank subjects the caller supplied, at any depth.
ObjectCallerBlanks(object) ==
    CASE object.variant = "Resource" -> CallerBlanks(object.resource[1])
      [] object.variant = "Resources" ->
            UNION {CallerBlanks(object.resources[1].values[i]) :
                       i \in 1..Len(object.resources[1].values)}
      [] OTHER -> {}
CallerBlanks(resource) ==
    (IF is_blank(resource.subject) THEN {resource.subject} ELSE {})
        \cup UNION {ObjectCallerBlanks(o) : o \in ObjectsOf(resource)}

IntermediaryNodes(s) == {s[k].subject : k \in {j \in 1..Len(s) : IsClassStatement(s, j)}}

EscapingOps == {"new", "with_type", "with_language", "String", "&str"}

\* The decoder of the text formats' string escapes: ECHAR (\t \n \r \f \" \'
\* \\) and UCHAR (\uXXXX); None for text that is not escaped text.
RECURSIVE unescape(_)
unescape(t) ==
    LET Then(c, rest) ==
            LET r == unescape(rest)
            IN  IF is_some(c) /\ is_some(r) THEN Some(<<c[1]>> \o r[1]) ELSE None
    IN  IF t = <<>> THEN Some(<<>>)
        ELSE IF Head(t) = Quote THEN None
        ELSE IF Head(t) # Backslash THEN Then(Some(Head(t)), Tail(t))
        ELSE IF Len(t) < 2 THEN None
        ELSE CASE t[2] = "t" -> Then(Some(Tab), SubSeq(t, 3, Len(t)))
               [] t[2] = "n" -> Then(Some("\n"), SubSeq(t, 3, Len(t)))
               [] t[2] = "r" -> Then(Some("\r"), SubSeq(t, 3, Len(t)))
               [] t[2] = "f" -> Then(Some(FormFeed), SubSeq(t, 3, Len(t)))
               [] t[2] = Quote -> Then(Some(Quote), SubSeq(t, 3, Len(t)))
               [] t[2] = "'" -> Then(Some("'"), SubSeq(t, 3, Len(t)))
               [] t[2] = Backslash -> Then(Some(Backslash), SubSeq(t, 3, Len(t)))
               [] t[2] = "u" ->
                    IF Len(t) >= 6 /\ AllHex(SubSeq(t, 3, 6))
                    THEN Then(char_from_u32(from_str_radix_16(SubSeq(t, 3, 6))),
                              SubSeq(t, 7, Len(t)))
                    ELSE None
               [] OTHER -> None

\* The length of the escape the text t starts with: a backslash and one
\* character, or a backslash, u and a code point in braces.
RECURSIVE UpToBrace(_, _)
UpToBrace(t, i) ==
    IF i > Len(t) THEN i ELSE IF t[i] = "}" THEN i ELSE UpToBrace(t, i + 1)
EscapeLength(t) == IF Len(t) >= 2 /\ t[2] = "u" THEN UpToBrace(t, 3) ELSE 2

\* The text t is the string s with each double quote and each backslash
\* preceded by a backslash, each other character written as itself or as one
\* escape, and nothing else.
RECURSIVE EscapedOnce(_, _)
EscapedOnce(s, t) ==
    IF s = <<>> THEN t = <<>>
    ELSE IF t = <<>> THEN FALSE
    ELSE IF Head(s) \in {Quote, Backslash}
    THEN /\ Len(t) >= 2
         /\ t[1] = Backslash
         /\ t[2] = Head(s)
         /\ EscapedOnce(Tail(s), SubSeq(t, 3, Len(t)))
    ELSE IF t[1] = Backslash
    THEN /\ EscapeLength(t) <= Len(t)
         /\ t[2] \notin {Quote, Backslash}
         /\ EscapedOnce(Tail(s), SubSeq(t, EscapeLength(t) + 1, Len(t)))
    ELSE /\ t[1] = Head(s)
         /\ EscapedOnce(Tail(s), Tail(t))

\* C11: the constructors and the String and &str conversions store the string
\* with every double quote and every backslash preceded by a backslash, as
\* test_needs_escape has it, and to_string() writes the stored form between
\* the quotes as it is.
C11_EscapedAtConstruction ==
    /\ escape_string(<<Backslash, "t", "a", " ", Quote, "s">>)
           = <<Backslash, Backslash, "t", "a", " ", Backslash, Quote, "s">>
    /\ (is_some(lit) /\ call.op \in EscapingOps) =>
        /\ EscapedOnce(call.value[1], lit[1].lexical_form)
        /\ is_some(shown) =>
            /\ Len(shown[1]) >= Len(lit[1].lexical_form) + 2
            /\ shown[1][1] = Quote
            /\ SubSeq(shown[1], 2, Len(lit[1].lexical_form) + 1) = lit[1].lexical_form
            /\ shown[1][Len(lit[1].lexical_form) + 2] = Quote

\* C11 witness: a literal of a quote and a backslash has been constructed and
\* displayed.
C11_Witness ==
    /\ is_some(lit)
    /\ call.op = "new"
    /\ call.value = Some(<<Quote, Backslash>>)
    /\ lit[1].lexical_form = <<Backslash, Quote, Backslash, Backslash>>
    /\ is_some(shown)

\* C12: unescaping the lexical form a constructor stored for the string s
\* gives s back, for every string s.
C12_EscapeRoundTrip ==
    (is_some(lit) /\ call.op \in EscapingOps) =>
        unescape(lit[1].lexical_form) = call.value

\* The round trip on the strings of letters, quotes, backslashes and tabs.
C12_RoundTripOfShortEscapes ==
    (is_some(lit) /\ call.op \in EscapingOps
        /\ \A i \in 1..Len(call.value[1]) : call.value[1][i] # FormFeed) =>
        unescape(lit[1].lexical_form) = call.value

(***************************************************************************)
(* Properties of the N-Triples parser, checked under ParserSpec.           *)
(***************************************************************************)
Finished == result.status \in {"Ok", "Err", "Panic"}
WellFormed(doc) == \A k \in 1..Len(doc) : IsTriple(doc[k]) \/ IsBlankLine(doc[k])
Decoded(line) == parse_triple(TriplePair(line))

\* The triples of the input the graph holds a statement of, when it holds
\* one per triple decoded so far.
InsertedLines == SubSeq(TripleLines(input[1]), 1, Len(graph[1]))

\* The text between the first and the last character of a term
Content(text) == SubSeq(text, 2, Len(text) - 1)

\* The text of an IRIREF read from left to right, each \uXXXX and each
\* \UXXXXXXXX replaced by the character of its code point.
RECURSIVE ReferenceDecode(_)
ReferenceDecode(content) ==
    IF content = <<>> THEN <<>>
    ELSE IF /\ Head(content) = Backslash
            /\ Len(content) >= 10
            /\ content[2] = "U"
            /\ AllHex(SubSeq(content, 3, 10))
    THEN <<CharOf(from_str_radix_16(SubSeq(content, 3, 10)))>>
             \o ReferenceDecode(SubSeq(content, 11, Len(content)))
    ELSE IF /\ Head(content) = Backslash
            /\ Len(content) >= 6
            /\ content[2] = "u"
            /\ AllHex(SubSeq(content, 3, 6))
    THEN <<CharOf(from_str_radix_16(SubSeq(content, 3, 6)))>>
             \o ReferenceDecode(SubSeq(content, 7, Len(content)))
    ELSE <<Head(content)>> \o ReferenceDecode(Tail(content))

\* Whether some \uXXXX or \UXXXXXXXX of the text names no Unicode character:
\* a surrogate, or a value above 10FFFF.
RECURSIVE HasInvalidCodePoint(_)
HasInvalidCodePoint(content) ==
    IF content = <<>> THEN FALSE
    ELSE IF /\ Head(content) = Backslash
            /\ Len(content) >= 10
            /\ content[2] = "U"
            /\ AllHex(SubSeq(content, 3, 10))
    THEN \/ is_none(char_from_u32(from_str_radix_16(SubSeq(content, 3, 10))))
         \/ HasInvalidCodePoint(SubSeq(content, 11, Len(content)))
    ELSE IF /\ Head(content) = Backslash
            /\ Len(content) >= 6
            /\ content[2] = "u"
            /\ AllHex(SubSeq(content, 3, 6))
    THEN \/ is_none(char_from_u32(from_str_radix_16(SubSeq(content, 3, 6))))
         \/ HasInvalidCodePoint(SubSeq(content, 7, Len(content)))
    ELSE HasInvalidCodePoint(Tail(content))

\* The IRIREFs written in the triples of a document: subjects, predicates,
\* objects and the data types of literals.
IriTexts(doc) ==
    {doc[k].terms[p].text :
        <<k, p>> \in {kp \in (1..Len(doc)) \X (1..3) :
                        /\ IsTriple(doc[kp[1]])
                        /\ doc[kp[1]].terms[kp[2]].rule = "IRIREF"}}
    \cup {doc[k].terms[3].suffix_text :
            k \in {j \in 1..Len(doc) :
                     IsTriple(doc[j]) /\ doc[j].terms[3].suffix_rule = "iri"}}

\* An IRIREF whose text, the escapes replaced, is an IRI without a scheme.
IsRelativeIri(text) ==
    /\ ~HasInvalidCodePoint(Content(text))
    /\ \A i \in 1..Len(ReferenceDecode(Content(text))) :
           ReferenceDecode(Content(text))[i] # " "
    /\ \/ ReferenceDecode(Content(text)) = <<>>
       \/ Head(ReferenceDecode(Content(text))) \notin AbsolutePrefixes

\* An IRIREF whose text, the escapes replaced, starts with a scheme.
IsAbsoluteIri(text) ==
    /\ ~HasInvalidCodePoint(Content(text))
    /\ ReferenceDecode(Content(text)) # <<>>
    /\ Head(ReferenceDecode(Content(text))) \in AbsolutePrefixes

\* The IRIs a statement holds
IrisOf(st) ==
    (IF st.subject.t = "iri" THEN {st.subject.s} ELSE {})
    \cup {st.predicate}
    \cup (IF st.object.t = "iri" THEN {st.object.s} ELSE {})
    \cup (IF st.object.t = "literal" /\ is_some(st.object.l[1].data_type)
          THEN {st.object.l[1].data_type[1].iri} ELSE {})

\* The index of the first triple of the document that fails to decode, 0
\* when every triple decodes.
FirstFailure(doc) ==
    IF \A k \in 1..Len(TripleLines(doc)) : Decoded(TripleLines(doc)[k]).status = "Ok"
    THEN 0
    ELSE CHOOSE k \in 1..Len(TripleLines(doc)) :
            /\ Decoded(TripleLines(doc)[k]).status # "Ok"
            /\ \A j \in 1..(k - 1) : Decoded(TripleLines(doc)[j]).status = "Ok"

\* C13: when the input does not match the grammar, or one of its triples
\* fails to decode (a relative IRI, an invalid language tag, an unexpected
\* production), parse_graph returns an error and no graph, whatever was
\* decoded before; and no statement lacks an object.
C13_FailedTripleReturnsError ==
    Finished =>
        /\ (\/ ~WellFormed(input[1])
            \/ \E k \in 1..Len(TripleLines(input[1])) :
                   Decoded(TripleLines(input[1])[k]).status = "Err")
           => (result.status = "Err" /\ is_none(result.graph))
        /\ is_some(result.graph) =>
               \A k \in 1..Len(result.graph[1]) :
                   result.graph[1][k].object.t \in {"iri", "blank", "literal"}

\* No parse returns a part of the graph: a graph is returned only when every
\* triple of the input was decoded, and it holds a statement of each.
C13_NoPartialGraph ==
    Finished =>
        /\ result.status = "Ok" =>
               /\ WellFormed(input[1])
               /\ FirstFailure(input[1]) = 0
               /\ Len(result.graph[1]) = Len(TripleLines(input[1]))
        /\ result.status # "Ok" => (is_none(result.graph) /\ is_none(graph))

\* The lines of a document without their comments and without the lines that
\* hold nothing else.
WithoutComments(doc) ==
    LET kept == SelectSeq(doc, LAMBDA line : line.terms # <<>> \/ line.dot)
    IN  [k \in 1..Len(kept) |-> Line(kept[k].terms, kept[k].dot, FALSE)]

\* C14: the graph of a successful parse starts empty and holds, when it is
\* returned, the statement of the k-th triple of the input at place k, one
\* per triple, the comments of the input adding none.
C14_OneStatementPerTripleInOrder ==
    /\ (result.status = "running" /\ consumed = 0) => graph = Some(<<>>)
    /\ result.status = "Ok" =>
        /\ result.graph = graph
        /\ Len(graph[1]) = Len(TripleLines(input[1]))
        /\ Len(graph[1]) = Len(WithoutComments(input[1]))
        /\ \A k \in 1..Len(graph[1]) :
               /\ Ok(graph[1][k]) = Decoded(TripleLines(input[1])[k])
               /\ Ok(graph[1][k]) = Decoded(WithoutComments(input[1])[k])

\* C14 witness: a parse has returned a graph of two different statements,
\* from an input with a comment.
C14_Witness ==
    /\ result.status = "Ok"
    /\ Len(result.graph[1]) = 2
    /\ result.graph[1][1] # result.graph[1][2]
    /\ \E k \in 1..Len(input[1]) : input[1][k].comment

\* The blank node labels written in the triples decoded so far: the line,
\* the place on the line (1 subject, 3 object).
BlankOccurrences ==
    {kp \in (1..Len(InsertedLines)) \X {1, 3} :
        InsertedLines[kp[1]].terms[kp[2]].rule = "BlankNode"}
LabelAt(kp) == Tail(Tail(InsertedLines[kp[1]].terms[kp[2]].text))
NodeAt(kp) == IF kp[2] = 1 THEN graph[1][kp[1]].subject ELSE graph[1][kp[1]].object

\* C15: the node of a blank node label is the blank node named by the label
\* without its '_:', and two labels of one parse, in subject or in object
\* position, on one line or on two, give the same node exactly when they are
\* the same label.
C15_OneNodePerLabel ==
    is_some(graph) =>
        /\ \A kp \in BlankOccurrences :
               /\ is_blank(NodeAt(kp))
               /\ NodeAt(kp).s = Join(LabelAt(kp))
        /\ \A kp \in BlankOccurrences : \A lq \in BlankOccurrences :
               (LabelAt(kp) = LabelAt(lq)) <=> (NodeAt(kp) = NodeAt(lq))

\* C15 witness: a label is the subject and the object of the first line and
\* the object of the second, whose subject is another label.
C15_Witness ==
    /\ result.status = "Ok"
    /\ Len(graph[1]) = 2
    /\ BlankOccurrences = {1, 2} \X {1, 3}
    /\ LabelAt(<<1, 1>>) = LabelAt(<<1, 3>>)
    /\ LabelAt(<<1, 1>>) = LabelAt(<<2, 3>>)
    /\ LabelAt(<<2, 1>>) # LabelAt(<<2, 3>>)
    /\ NodeAt(<<1, 1>>) = NodeAt(<<2, 3>>)
    /\ NodeAt(<<2, 1>>) # NodeAt(<<2, 3>>)

\* C16: iri_ref returns no relative IRI; for an IRIREF that is a relative
\* reference it returns the error AbsoluteIriExpected with the text of the
\* IRI; a parse whose first failing triple fails so returns that error; and
\* every IRI of a statement of the graph is an absolute IRI of the input.
C16_OnlyAbsoluteIris ==
    is_some(input) =>
        /\ \A text \in IriTexts(input[1]) :
               /\ iri_ref(Pair("IRIREF", text, <<>>)).status = "Ok" =>
                      ~is_relative_reference(iri_ref(Pair("IRIREF", text, <<>>)).value[1])
               /\ IsRelativeIri(text) =>
                      iri_ref(Pair("IRIREF", text, <<>>))
                          = Err(ErrorKind("AbsoluteIriExpected",
                                          Join(ReferenceDecode(Content(text)))))
        /\ is_some(graph) =>
               \A k \in 1..Len(graph[1]) :
                   IrisOf(graph[1][k]) \subseteq
                       {Join(ReferenceDecode(Content(text))) :
                           text \in {t \in IriTexts(input[1]) : IsAbsoluteIri(t)}}
        /\ (/\ Finished
            /\ WellFormed(input[1])
            /\ FirstFailure(input[1]) > 0
            /\ \E text \in {t \in IriTexts(input[1]) : IsRelativeIri(t)} :
                   Decoded(TripleLines(input[1])[FirstFailure(input[1])])
                       = Err(ErrorKind("AbsoluteIriExpected",
                                       Join(ReferenceDecode(Content(text))))))
           => /\ result.status = "Err"
              /\ result.error = Decoded(TripleLines(input[1])[FirstFailure(input[1])]).error
              /\ is_none(graph)

\* C16 witness: after a triple was decoded, a parse has failed on the
\* predicate <A> with the error that carries the text A.
C16_Witness ==
    /\ result.status = "Err"
    /\ result.error = Some(ErrorKind("AbsoluteIriExpected", "A"))
    /\ consumed = 2
    /\ is_none(graph)

\* C17: the text iri_ref validates is the text between the angle brackets with
\* every \uXXXX and \UXXXXXXXX replaced by the character of its code point and
\* the rest in its order: the text itself when it holds no escape.
C17_IriRefDecoding ==
    is_some(input) =>
        /\ \A text \in IriTexts(input[1]) :
               ~HasInvalidCodePoint(Content(text)) =>
                   /\ unescape_iri(Slice(text, 1, Len(text) - 1))
                          = Ok(ReferenceDecode(Content(text)))
                   /\ (\A i \in 1..Len(text) : text[i] # Backslash) =>
                          unescape_iri(Slice(text, 1, Len(text) - 1)) = Ok(Content(text))
                   /\ iri_ref(Pair("IRIREF", text, <<>>)).status = "Ok" =>
                          iri_ref(Pair("IRIREF", text, <<>>)).value[1].text
                              = Join(ReferenceDecode(Content(text)))
                   /\ iri_ref(Pair("IRIREF", text, <<>>)).status = "Err" =>
                          iri_ref(Pair("IRIREF", text, <<>>)).error[1].text
                              = Join(ReferenceDecode(Content(text)))
        /\ is_some(graph) =>
               \A k \in 1..Len(graph[1]) :
                   InsertedLines[k].terms[1].rule = "IRIREF" =>
                       graph[1][k].subject.s
                           = Join(ReferenceDecode(Content(InsertedLines[k].terms[1].text)))

\* C17 witness: the subject <http://a/As\U00000041> has been decoded to
\* http://a/AsA.
C17_Witness ==
    /\ result.status = "Ok"
    /\ Len(graph[1]) >= 1
    /\ InsertedLines[1].terms[1].text = <<"<">> \o IriEscaped \o <<">">>
    /\ graph[1][1].subject.s = "http://a/AsA"

\* C18: a parse of malformed input returns an error: input that does not
\* match the grammar, input a triple of which does not decode, and in
\* particular input with an IRIREF whose \uXXXX or \UXXXXXXXX is a surrogate
\* or above 10FFFF.
C18_MalformedInputReturnsError ==
    Finished =>
        /\ result.status # "Panic"
        /\ (~WellFormed(input[1]) \/ FirstFailure(input[1]) > 0) => result.status = "Err"
        /\ (\E text \in IriTexts(input[1]) : HasInvalidCodePoint(Content(text)))
               => result.status = "Err"

\* Malformed input without an escape of an invalid code point is not skipped:
\* its parse returns an error.
C18_OtherMalformedInputReturnsError ==
    (/\ Finished
     /\ \A text \in IriTexts(input[1]) : ~HasInvalidCodePoint(Content(text))
     /\ ~WellFormed(input[1]) \/ FirstFailure(input[1]) > 0)
        => result.status = "Err"

\* C19: the literal of a string with a data type suffix has the data type
\* Other of the suffix's IRI, also when that is the IRI of xsd:string.
C19_SuffixIsOther ==
    is_some(graph) =>
        \A k \in 1..Len(graph[1]) :
            InsertedLines[k].terms[3].suffix_rule = "iri" =>
                /\ graph[1][k].object.t = "literal"
                /\ graph[1][k].object.l[1].data_type
                       = Some(DataType_Other(
                              Join(ReferenceDecode(Content(InsertedLines[k].terms[3].suffix_text)))))
                /\ graph[1][k].object.l[1].data_type[1].variant = "Other"
                /\ is_none(graph[1][k].object.l[1].language)

\* C19 witness: a literal with the suffix ^^<http://www.w3.org/2001/XMLSchema#string>
\* has been inserted.
C19_Witness ==
    /\ result.status = "Ok"
    /\ Len(graph[1]) >= 1
    /\ InsertedLines[1].terms[3].suffix_text = <<"<", xsd_string, ">">>
    /\ graph[1][1].object.l[1].data_type = Some(DataType_Other(xsd_string))

\* C20: the lexical form of a parsed literal is the text between its quotes as
\* it is written; without a suffix the literal has no data type and no
\* language, with a language tag it has the tag as it is written and no data
\* type.
C20_LexicalFormVerbatim ==
    is_some(graph) =>
        \A k \in 1..Len(graph[1]) :
            InsertedLines[k].terms[3].rule = "literal" =>
                /\ graph[1][k].object.l[1].lexical_form
                       = Content(InsertedLines[k].terms[3].text)
                /\ InsertedLines[k].terms[3].suffix_rule = "none" =>
                       /\ is_none(graph[1][k].object.l[1].data_type)
                       /\ is_none(graph[1][k].object.l[1].language)
                /\ InsertedLines[k].terms[3].suffix_rule = "LANGTAG" =>
                       /\ is_none(graph[1][k].object.l[1].data_type)
                       /\ graph[1][k].object.l[1].language
                              = Some(Tail(InsertedLines[k].terms[3].suffix_text))

\* The same for the literals without a quote and without a backslash, such as
\* "hi"@en and "hi"@EN.
C20_VerbatimWithoutEscapes ==
    is_some(graph) =>
        \A k \in 1..Len(graph[1]) :
            (/\ InsertedLines[k].terms[3].rule = "literal"
             /\ \A i \in 1..Len(Content(InsertedLines[k].terms[3].text)) :
                    Content(InsertedLines[k].terms[3].text)[i] \notin {Quote, Backslash}) =>
                /\ graph[1][k].object.l[1].lexical_form
                       = Content(InsertedLines[k].terms[3].text)
                /\ InsertedLines[k].terms[3].suffix_rule = "none" =>
                       /\ is_none(graph[1][k].object.l[1].data_type)
                       /\ is_none(graph[1][k].object.l[1].language)
                /\ InsertedLines[k].terms[3].suffix_rule = "LANGTAG" =>
                       /\ is_none(graph[1][k].object.l[1].data_type)
                       /\ graph[1][k].object.l[1].language
                              = Some(Tail(InsertedLines[k].terms[3].suffix_text))

(***************************************************************************)
(* Properties of the Predicate builder, checked under PredicateSpec.       *)
(***************************************************************************)
\* The values a resource holds under a key, none when it has no such entry
ValuesUnder(r, key) ==
    IF contains_key(r.predicates, key) THEN r.predicates[IndexOf(r.predicates, key)].values
    ELSE <<>>
KeysOf(r) == {r.predicates[i].key : i \in 1..Len(r.predicates)}

\* C26: the resource a Predicate was added to holds what the resource holds on
\* which the methods of Resource were called with the predicate's IRI, once
\* per value in the same order: the same keys, under each key the same values
\* in the same order, the predicate's objects appended to the values its IRI
\* had; a Predicate without objects leaves the resource as it was.
C26_PredicateIsTheResourceCalls ==
    is_some(viaPredicate) =>
        /\ viaPredicate[1].subject = direct.subject
        /\ KeysOf(viaPredicate[1]) = KeysOf(direct)
        /\ Len(viaPredicate[1].predicates) = Cardinality(KeysOf(direct))
        /\ \A key \in KeysOf(direct) :
               ValuesUnder(viaPredicate[1], key) = ValuesUnder(direct, key)
        /\ ValuesUnder(viaPredicate[1], pred[1].name)
               = ValuesUnder(BaseResource, pred[1].name) \o pred[1].objects
        /\ pred[1].objects = <<>> => viaPredicate[1] = BaseResource

\* C26 witness: a Predicate of a new IRI with two different objects, a literal
\* and a container, has been added.
C26_Witness ==
    /\ is_some(viaPredicate)
    /\ pred[1].name = P2
    /\ Len(pred[1].objects) = 2
    /\ pred[1].objects[1].variant = "Literal"
    /\ pred[1].objects[2].variant = "Resources"
    /\ ValuesUnder(viaPredicate[1], P2) = pred[1].objects

(***************************************************************************)
(* Properties of the SKOS model, checked under SkosSpec.                   *)
(***************************************************************************)
ConceptIris == {scheme.concepts[i].uri : i \in 1..Len(scheme.concepts)}
Holds(sts_, subject, predicate, object) ==
    \E i \in 1..Len(sts_) :
        sts_[i] = Statement_new(SubjectNode_named(subject), predicate,
                                SubjectNode_named(object))

\* C29: every IRI of top_concepts is the IRI of a concept of concepts; the
\* statements of the scheme hold, for every top concept, that it is a top
\* concept of the scheme and that the scheme has it as a top concept, and
\* for every concept that it is in the scheme.
C29_TopConceptsAreConcepts ==
    /\ scheme.top_concepts \subseteq ConceptIris
    /\ is_some(statements) =>
        /\ \A top \in scheme.top_concepts :
               /\ Holds(statements[1], top, ns_top_concept_of, scheme.uri)
               /\ Holds(statements[1], scheme.uri, ns_has_top_concept, top)
        /\ \A concept \in ConceptIris :
               Holds(statements[1], concept, ns_in_scheme, scheme.uri)

\* C29 witness: the statements of a scheme after three calls that left it
\* with two concepts, one of them a top concept.
C29_Witness ==
    /\ is_some(statements)
    /\ skosCalls = 3
    /\ Cardinality(ConceptIris) = 2
    /\ Cardinality(scheme.top_concepts) = 1
    /\ \E top \in scheme.top_concepts :
           Holds(statements[1], top, ns_top_concept_of, scheme.uri)

\* The lexical forms of the preferred labels of a language
LabelsIn(language) ==
    {labeled[i].value.lexical_form :
        i \in {j \in 1..Len(labeled) : /\ labeled[j].predicate = ns_pref_label
                                       /\ labeled[j].value.language = language}}
AllPreferred ==
    {labeled[i].value.lexical_form :
        i \in {j \in 1..Len(labeled) : labeled[j].predicate = ns_pref_label}}

\* C30: preferred_label returns for every list of properties: a preferred
\* label of the language asked for when there is one, else a preferred label
\* without language, else another preferred label, and None when there is no
\* preferred label.
C30_PreferredLabelTotal ==
    is_some(asked) =>
        /\ asked[1].returned.status = "Ok"
        /\ LabelsIn(Some(asked[1].for_language)) # {} =>
               /\ is_some(asked[1].returned.value[1])
               /\ asked[1].returned.value[1][1] \in LabelsIn(Some(asked[1].for_language))
        /\ (LabelsIn(Some(asked[1].for_language)) = {} /\ LabelsIn(None) # {}) =>
               /\ is_some(asked[1].returned.value[1])
               /\ asked[1].returned.value[1][1] \in LabelsIn(None)
        /\ (LabelsIn(Some(asked[1].for_language)) = {} /\ LabelsIn(None) = {}
                /\ AllPreferred # {}) =>
               /\ is_some(asked[1].returned.value[1])
               /\ asked[1].returned.value[1][1] \in AllPreferred
        /\ AllPreferred = {} => asked[1].returned = Ok(None)

\* The same for the objects that have a preferred label.
C30_LabelWhenThereIsOne ==
    (is_some(asked) /\ AllPreferred # {}) =>
        /\ asked[1].returned.status = "Ok"
        /\ is_some(asked[1].returned.value[1])
        /\ LabelsIn(Some(asked[1].for_language)) # {} =>
               asked[1].returned.value[1][1] \in LabelsIn(Some(asked[1].for_language))
        /\ (LabelsIn(Some(asked[1].for_language)) = {} /\ LabelsIn(None) # {}) =>
               asked[1].returned.value[1][1] \in LabelsIn(None)
        /\ asked[1].returned.value[1][1] \in AllPreferred

(***************************************************************************)
(* Properties of the Turtle writer, checked under WriterSpec.              *)
(***************************************************************************)
Returned == is_some(wresult)
Out == sink.out
Nesting == writer[1].options.nest_blank_nodes

\* The stack of the model is deep enough: it is only used up by a write to
\* a sink that never fails.
StackBoundSound ==
    (Returned /\ wresult[1] = "StackOverflow") => sink.fail_at = 0

\* The declarations of the two styles
BaseDeclaration(sparql) == IF sparql THEN "BASE <{}>\n" ELSE "@base <{}> .\n"
PrefixDeclaration(sparql) == IF sparql THEN "PREFIX {}: <{}>\n" ELSE "@prefix {}: <{}> .\n"
Declarations == {BaseDeclaration(b) : b \in BOOLEAN} \cup {PrefixDeclaration(b) : b \in BOOLEAN}
\* The chunks of the head of the output: the base, an empty line, the
\* prefix mappings, an empty line
Head22 ==
    (IF is_some(writer[1].base)
     THEN <<Chunk(BaseDeclaration(writer[1].options.use_sparql_style), writer[1].base[1])>>
     ELSE <<>>)
    \o <<Chunk("\n", <<>>)>>
    \o [i \in 1..Len(written[1].mappings) |->
           Chunk(PrefixDeclaration(writer[1].options.use_sparql_style),
                 <<written[1].mappings[i].prefix>> \o written[1].mappings[i].namespace)]
    \o <<Chunk("\n", <<>>)>>
\* Where the blocks of the top level start in the output, and which of them
\* are blocks of a blank node
BlockStarts == {i \in 1..(Len(Out) - 1) : Out[i] = Chunk("{}", <<>>)}
IsBlankBlock(i) == Out[i + 1].kind = "_:{} "

\* C22: the output starts with the base declaration if a base is set, then
\* the declarations of the prefix mappings in their order, all in the style
\* of the flag; the blocks come after them, those of the IRI subjects
\* before those of the blank subjects.
C22_OutputOrder ==
    Returned =>
        /\ \A i \in 1..Len(Out) : i <= Len(Head22) => Out[i] = Head22[i]
        /\ \A i \in 1..Len(Out) : Out[i].kind \in Declarations => i <= Len(Head22)
        /\ \A i \in BlockStarts : i > Len(Head22)
        /\ \A i \in BlockStarts, j \in BlockStarts :
               (i < j /\ IsBlankBlock(i)) => IsBlankBlock(j)
        /\ wresult[1] = "Ok" => Len(Out) >= Len(Head22)

\* C22 witness: a write with a base in the other style, of a graph whose
\* first subject is a blank node, that wrote the block of an IRI subject and
\* after it the block of the blank node.
C22_Witness ==
    /\ Returned
    /\ wresult[1] = "Ok"
    /\ is_some(writer[1].base)
    /\ writer[1].options.use_sparql_style
    /\ is_blank(Graph_subjects(written[1])[1])
    /\ \E i \in BlockStarts, j \in BlockStarts : i < j /\ ~IsBlankBlock(i) /\ IsBlankBlock(j)

\* The IRIs a prefix mapping of the graph compresses, and those that begin
\* with the base
Compressible(name) ==
    \E i \in 1..Len(written[1].mappings) : starts_with(name, written[1].mappings[i].namespace)
BeginsWithBase(name) ==
    is_some(writer[1].base) /\ starts_with(name, writer[1].base[1])

\* C24: an IRI is written as <iri> only when no prefix mapping compresses it
\* and it does not begin with the base; one that begins with the base is
\* written as <suffix>; any other that a mapping compresses is written as
\* prefix:local.
C24_IriForms ==
    Returned =>
        \A e \in sink.iris :
            /\ e.chunk = Chunk("<{}> ", e.name) =>
                   ~Compressible(e.name) /\ ~BeginsWithBase(e.name)
            /\ BeginsWithBase(e.name) =>
                   e.chunk = Chunk("<{}> ", StripPrefix(e.name, writer[1].base[1]))
            /\ (~BeginsWithBase(e.name) /\ Compressible(e.name)) =>
                   /\ e.chunk.kind = "{}:{} "
                   /\ \E i \in 1..Len(written[1].mappings) :
                          /\ starts_with(e.name, written[1].mappings[i].namespace)
                          /\ e.chunk.arg = <<written[1].mappings[i].prefix>>
                                 \o StripPrefix(e.name, written[1].mappings[i].namespace)

\* C24 witness: a write with a base that wrote an IRI in each of the three
\* forms, the one written as <suffix> being one a mapping compresses.
C24_Witness ==
    /\ Returned
    /\ wresult[1] = "Ok"
    /\ \E e \in sink.iris : e.chunk = Chunk("<{}> ", e.name)
    /\ \E e \in sink.iris : e.chunk.kind = "{}:{} "
    /\ \E e \in sink.iris :
           /\ BeginsWithBase(e.name)
           /\ Compressible(e.name)
           /\ e.chunk = Chunk("<{}> ", StripPrefix(e.name, writer[1].base[1]))

\* What the same write puts into a sink that never fails
FullOutput == TurtleWriter_write(NewSink(0), writer[1], written[1]).w.out

\* C25: when a write to the sink fails, write returns the error, no write is
\* made after the failed one, and the sink holds what was written before it.
C25_FailurePropagated ==
    (Returned /\ sink.fail_at > 0 /\ sink.attempts >= sink.fail_at) =>
        /\ wresult[1] = "Err"
        /\ sink.attempts = sink.fail_at
        /\ Out = SubSeq(FullOutput, 1, sink.fail_at - 1)

\* C25 witness: a write that failed inside the nested block of a blank node,
\* after the head and a part of a block were written.
C25_Witness ==
    /\ Returned
    /\ wresult[1] = "Err"
    /\ Len(Out) > Len(Head22) + 3
    /\ Len(sink.blocks) = 2
    /\ sink.blocks[2].depth > 0
    /\ Out[Len(Out)].kind = "{}:{} "

\* The calls of write_sub_graph for a subject, at the top level and nested
TopLevel(subject) == {i \in 1..Len(sink.blocks) :
                         sink.blocks[i].subject = subject /\ sink.blocks[i].depth = 0}
NestedAt(subject) == {i \in 1..Len(sink.blocks) :
                         sink.blocks[i].subject = subject /\ sink.blocks[i].depth > 0}
BlankNodes == {BlankA, BlankB}

\* C23: a blank node written as a nested block, under an IRI subject or
\* under a blank node, is not written as a block of the top level as well.
C23_NestedNotWrittenAgain ==
    (Returned /\ wresult[1] = "Ok") =>
        \A b \in BlankNodes : NestedAt(b) # {} => TopLevel(b) = {}

\* The same for the blank nodes nested under an IRI subject, at any depth:
\* the blocks of the IRI subjects are those before the first block of a
\* blank subject.
C23_NotAgainWhenUnderIriSubject ==
    Returned =>
        \A b \in BlankNodes :
            (\E i \in NestedAt(b) :
                \A j \in 1..i : sink.blocks[j].depth = 0 => is_iri(sink.blocks[j].subject))
                => TopLevel(b) = {}

\* The blank nodes a blank node reaches as objects, in at most as many steps
\* as there are blank nodes
BlankObjects(in_graph, from) ==
    {in_graph.statements[i].object :
        i \in {j \in 1..Len(in_graph.statements) :
                  /\ in_graph.statements[j].subject \in from
                  /\ is_blank(in_graph.statements[j].object)}}
ReachedFrom(in_graph, b) ==
    BlankObjects(in_graph, {b})
        \cup BlankObjects(in_graph, BlankObjects(in_graph, {b}))
Acyclic(in_graph) == \A b \in BlankNodes : b \notin ReachedFrom(in_graph, b)

\* C27: write returns, with Ok or with the error of the sink, for every
\* graph, the graphs with a cycle of blank nodes included.
C27_WriteReturns ==
    Returned => wresult[1] \in {"Ok", "Err"}

\* write returns for every graph without a cycle of blank nodes, and for
\* every graph when blank nodes are not nested.
C27_ReturnsWithoutCycle ==
    (Returned /\ (Acyclic(written[1]) \/ ~Nesting)) => wresult[1] \in {"Ok", "Err"}

\* C28: with nesting, the predicates and objects of every subject of a graph
\* without a cycle of blank nodes are written once.
C28_EverySubjectOnce ==
    (Returned /\ wresult[1] = "Ok" /\ Nesting /\ Acyclic(written[1])) =>
        \A i \in 1..Len(Graph_subjects(written[1])) :
            Cardinality(TopLevel(Graph_subjects(written[1])[i])
                            \cup NestedAt(Graph_subjects(written[1])[i])) = 1

\* Every subject is written once when no blank node is an object of two
\* statements or of a blank subject, and whenever blank nodes are not nested.
ObjectOnceOfIri(in_graph) ==
    \A b \in BlankNodes :
        /\ Cardinality({i \in 1..Len(in_graph.statements) :
                           in_graph.statements[i].object = b}) <= 1
        /\ \A i \in 1..Len(in_graph.statements) :
               in_graph.statements[i].object = b => is_iri(in_graph.statements[i].subject)
C28_OnceWhenATree ==
    (Returned /\ wresult[1] = "Ok" /\ (~Nesting \/ ObjectOnceOfIri(written[1]))) =>
        \A i \in 1..Len(Graph_subjects(written[1])) :
            Cardinality(TopLevel(Graph_subjects(written[1])[i])
                            \cup NestedAt(Graph_subjects(written[1])[i])) = 1

\* The blank nodes of a set of statements
BlanksOf(set) ==
    {st.subject : st \in {x \in set : is_blank(x.subject)}}
        \cup {st.object : st \in {x \in set : is_blank(x.object)}}
Renamed(node, f) == IF is_blank(node) THEN f[node] ELSE node
\* The two sets are the same statements, up to the labels of the blank nodes
SameGraph(left, right) ==
    /\ Cardinality(BlanksOf(left)) = Cardinality(BlanksOf(right))
    /\ \E f \in [BlanksOf(left) -> BlanksOf(right)] :
           /\ \A b \in BlanksOf(left), c \in BlanksOf(left) : f[b] = f[c] => b = c
           /\ {Triple(Renamed(st.subject, f), st.predicate, Renamed(st.object, f)) : st \in left}
                  = right

\* C21: the text written for a graph reads back as the statements of the
\* graph, whatever the options and the base of the writer.
C21_RoundTrip ==
    is_some(reread) =>
        /\ reread[1].ok
        /\ SameGraph(StatementSet(written[1].statements), StatementSet(reread[1].statements))

\* The text reads back as the graph when blank nodes are not nested, and
\* when every blank node is the object of at most one statement, of an IRI
\* subject.
C21_RoundTripOfATree ==
    (is_some(reread) /\ (~Nesting \/ ObjectOnceOfIri(written[1]))) =>
        /\ reread[1].ok
        /\ SameGraph(StatementSet(written[1].statements), StatementSet(reread[1].statements))

====
